---- MODULE Spec2Model ----
(***************************************************************************)
(* Hive: the Reality Network submission service (src/network/service.rs),  *)
(* its notifier handle, the snapshot codec it calls and the message        *)
(* handlers that signal it.                                                *)
(*                                                                         *)
(* One background task runs NetworkService::run; any number of message     *)
(* handler tasks call NetworkNotifier::mark_dirty.  The two sides share an *)
(* AtomicBool (dirty) and a tokio Notify (notify).                         *)
(*                                                                         *)
(* MsgSpec is the message-handling layer alone (src/bot/mod.rs and         *)
(* src/handlers); IdSpec is start-up and the node identity                 *)
(* (src/network/identity.rs); CodecSpec is the calls of the snapshot codec *)
(* and of RealityClient::get_app_data; VoucherSpec is the calls of         *)
(* Store::redeem_voucher, step by step, on one store.                      *)
(***************************************************************************)
EXTENDS Integers, Sequences, FiniteSets, TLC

\* ---------------------------------------------------------------- bounds
\* Number of message-handler tasks that may run concurrently.
NumCallers == 2
\* Number of state-changing messages handled in one behaviour of Spec.
MaxCalls == 5
\* Number of state-changing messages handled in one behaviour of FairSpec.
MaxLiveCalls == 2
\* Number of order rows the orders table may hold.
MaxOrders == 2
Callers == 1 .. NumCallers
\* Readings of the system clock (unix millis) that capture_state can get.
\* The reading goes into the snapshot content and nowhere else.
Timestamps == {0}

\* ------------------------------------------------------- codec (pure part)
\* Business name from the configuration, as UTF-8 bytes ("H").
BusinessName == <<72>>

\* MessagePack encoding of an unsigned integer, smallest form first
\* (rmp_serde::to_vec): positive fixint, uint8, uint16, uint32.
MsgPackUint(n) ==
    IF n < 128 THEN <<n>>
    ELSE IF n < 256 THEN <<204, n>>
    ELSE IF n < 65536 THEN <<205, (n \div 256) % 256, n % 256>>
    ELSE <<206, (n \div 16777216) % 256, (n \div 65536) % 256, (n \div 256) % 256, n % 256>>

\* MessagePack encoding of a signed integer (i64 fields), smallest form
\* first: as the unsigned forms when it is not negative, else negative
\* fixint, int8, int16.
MsgPackInt(n) ==
    IF n >= 0 THEN MsgPackUint(n)
    ELSE IF n >= -32 THEN <<256 + n>>
    ELSE IF n >= -128 THEN <<208, 256 + n>>
    ELSE <<209, ((65536 + n) \div 256) % 256, (65536 + n) % 256>>

\* MessagePack encoding of a short string: fixstr header then the bytes.
MsgPackStr(bytes) == <<160 + Len(bytes)>> \o bytes

RECURSIVE MsgPackStrs(_)
MsgPackStrs(strs) ==
    IF strs = <<>> THEN <<>>
    ELSE MsgPackStr(Head(strs)) \o MsgPackStrs(Tail(strs))

\* HiveStateSnapshot::to_bytes: the struct as a MessagePack array of its
\* nine fields in declaration order, the voucher summary as an array of four.
to_bytes(s) ==
    <<144 + 9>>
        \o MsgPackUint(s.version)
        \o MsgPackStr(s.business_name)
        \o MsgPackUint(s.timestamp_ms)
        \o MsgPackUint(s.total_orders)
        \o MsgPackInt(s.total_revenue_cents)
        \o MsgPackUint(s.active_orders)
        \o MsgPackUint(s.delivered_orders)
        \o (<<144 + 4>>
              \o MsgPackUint(s.vouchers.total_created)
              \o MsgPackUint(s.vouchers.total_redeemed)
              \o MsgPackInt(s.vouchers.total_value_created_cents)
              \o MsgPackInt(s.vouchers.total_value_redeemed_cents))
        \o (<<144 + Len(s.order_hashes)>> \o MsgPackStrs(s.order_hashes))

\* `b as i8` with the sign bit dropped instead of reinterpreted.
AsI8_low_bits(b) == b % 128

\* `b as i8`: reinterpret an unsigned byte as a signed one.
AsI8(b) == IF b < 128 THEN b ELSE b - 256

\* StateChannelSnapshotBinary::from_unsigned
from_unsigned(last_snapshot_hash_in, content) ==
    [last_snapshot_hash |-> last_snapshot_hash_in,
     content |-> [i \in 1 .. Len(content) |-> AsI8(content[i])]]

\* HiveStateSnapshot::to_state_channel_binary, the cursor trimmed of the
\* blanks around it.
to_state_channel_binary_trimmed(s, last_snapshot_hash_in) ==
    from_unsigned(IF last_snapshot_hash_in = " 00AB " THEN "00AB" ELSE last_snapshot_hash_in,
                  to_bytes(s))

\* HiveStateSnapshot::to_state_channel_binary
to_state_channel_binary(s, last_snapshot_hash_in) ==
    from_unsigned(last_snapshot_hash_in, to_bytes(s))

\* serde_json::to_string of a Vec<i8>: "[a,b,c]" without spaces.
RECURSIVE JsonInts(_)
JsonInts(xs) ==
    IF xs = <<>> THEN ""
    ELSE IF Len(xs) = 1 THEN ToString(xs[1])
    ELSE ToString(xs[1]) \o "," \o JsonInts(Tail(xs))

\* serde_json::to_string of a StateChannelSnapshotBinary (camelCase names).
JsonBinary(v) ==
    "{\"lastSnapshotHash\":\"" \o v.last_snapshot_hash
        \o "\",\"content\":[" \o JsonInts(v.content) \o "]}"

\* SHA-256 then lowercase hex.  The digest is not computed: it is an
\* uninterpreted injective function of its input.
Sha256Hex(text) == "sha256<" \o text \o ">"

\* NodeIdentity::hash_value for a StateChannelSnapshotBinary.
hash_value(v) == Sha256Hex(JsonBinary(v))

\* ------------------------------------------------- identity (pure part)
\* Text is a sequence of one-character strings, bytes are a sequence of
\* integers in 0 .. 255.

\* Result<T>: Ok(value) or Err(message).
Ok(val) == [ok |-> TRUE, val |-> val]
Err(msg) == [ok |-> FALSE, err |-> msg]

RECURSIVE Repeat(_, _)
Repeat(x, n) == IF n = 0 THEN <<>> ELSE <<x>> \o Repeat(x, n - 1)

HexDigits == <<"0", "1", "2", "3", "4", "5", "6", "7",
               "8", "9", "a", "b", "c", "d", "e", "f">>

\* hex::encode: two lower-case digits per byte.
RECURSIVE hex_encode(_)
hex_encode(bytes) ==
    IF bytes = <<>> THEN <<>>
    ELSE <<HexDigits[(Head(bytes) \div 16) + 1], HexDigits[(Head(bytes) % 16) + 1]>>
             \o hex_encode(Tail(bytes))

\* The value of one hex digit, either case; -1 for any other character.
hex_val(c) ==
    CASE c = "A" -> 10 [] c = "B" -> 11 [] c = "C" -> 12
      [] c = "D" -> 13 [] c = "E" -> 14 [] c = "F" -> 15
      [] \E i \in 1 .. 16 : HexDigits[i] = c ->
           (CHOOSE i \in 1 .. 16 : HexDigits[i] = c) - 1
      [] OTHER -> -1

RECURSIVE hex_pairs(_)
hex_pairs(text) ==
    IF text = <<>> THEN <<>>
    ELSE <<hex_val(text[1]) * 16 + hex_val(text[2])>> \o hex_pairs(SubSeq(text, 3, Len(text)))

\* hex::decode: OddLength and InvalidHexCharacter are its errors.
hex_decode(text) ==
    IF Len(text) % 2 # 0 THEN Err("OddLength")
    ELSE IF \E i \in 1 .. Len(text) : hex_val(text[i]) = -1 THEN Err("InvalidHexCharacter")
    ELSE Ok(hex_pairs(text))

\* The Base58 alphabet of bs58 (Bitcoin's).
Alphabet ==
    <<"1", "2", "3", "4", "5", "6", "7", "8", "9", "A", "B", "C", "D", "E", "F",
      "G", "H", "J", "K", "L", "M", "N", "P", "Q", "R", "S", "T", "U", "V", "W",
      "X", "Y", "Z", "a", "b", "c", "d", "e", "f", "g", "h", "i", "j", "k", "m",
      "n", "o", "p", "q", "r", "s", "t", "u", "v", "w", "x", "y", "z">>

\* bs58::encode, one input byte: the byte is carried through the base-58
\* digits written so far (least significant first), each digit d becoming
\* (d * 256 + carry) % 58; what is left of the carry is appended.
RECURSIVE bs58_carry(_, _, _)
bs58_carry(digits, j, carry) ==
    IF j > Len(digits)
    THEN IF carry = 0 THEN digits
         ELSE bs58_carry(Append(digits, carry % 58), j + 1, carry \div 58)
    ELSE bs58_carry([digits EXCEPT ![j] = (digits[j] * 256 + carry) % 58],
                    j + 1, (digits[j] * 256 + carry) \div 58)

RECURSIVE bs58_digits(_, _)
bs58_digits(bytes, digits) ==
    IF bytes = <<>> THEN digits
    ELSE bs58_digits(Tail(bytes), bs58_carry(digits, 1, Head(bytes)))

RECURSIVE leading_zeros(_)
leading_zeros(bytes) ==
    IF bytes = <<>> \/ Head(bytes) # 0 THEN 0 ELSE 1 + leading_zeros(Tail(bytes))

\* bs58::encode(..).into_string(): the number's base-58 digits, one zero
\* digit more for each leading zero byte, most significant first.
bs58_encode(bytes) ==
    LET digits == bs58_digits(bytes, <<>>) \o Repeat(0, leading_zeros(bytes))
        len == Len(digits)
    IN  [i \in 1 .. len |-> Alphabet[digits[len + 1 - i] + 1]]

is_ascii_digit(c) == c \in {"0", "1", "2", "3", "4", "5", "6", "7", "8", "9"}

\* char::to_digit(10) of a decimal digit.
to_digit(c) ==
    CASE c = "0" -> 0 [] c = "1" -> 1 [] c = "2" -> 2 [] c = "3" -> 3 [] c = "4" -> 4
      [] c = "5" -> 5 [] c = "6" -> 6 [] c = "7" -> 7 [] c = "8" -> 8 [] c = "9" -> 9

\* format!("{}", n) of a u32.
RECURSIVE u32_to_string(_)
u32_to_string(n) ==
    IF n < 10 THEN <<HexDigits[n + 1]>>
    ELSE u32_to_string(n \div 10) \o <<HexDigits[(n % 10) + 1]>>

\* PUBLIC_KEY_DER_PREFIX
PUBLIC_KEY_DER_PREFIX ==
    <<"3", "0", "5", "6", "3", "0", "1", "0", "0", "6", "0", "7", "2", "a", "8", "6",
      "4", "8", "c", "e", "3", "d", "0", "2", "0", "1", "0", "6", "0", "5", "2", "b",
      "8", "1", "0", "4", "0", "0", "0", "a", "0", "3", "4", "2", "0", "0", "0", "4">>

\* Secret keys of the model: the key of test_deterministic_address, the
\* bytes 1 .. 32, and two that are no secp256k1 secret key (zero, and a
\* value above the group order).
Key42 == Repeat(42, 32)
KeySeq == [i \in 1 .. 32 |-> i]
KeyZero == Repeat(0, 32)
KeyMax == Repeat(255, 32)
SecretKeys == {Key42, KeySeq, KeyZero, KeyMax}

\* The order of the secp256k1 group, big-endian.
CurveOrder ==
    <<255, 255, 255, 255, 255, 255, 255, 255, 255, 255, 255, 255, 255, 255,
      255, 254, 186, 174, 220, 230, 175, 72, 160, 59, 191, 210, 94, 140, 208,
      54, 65, 65>>

\* a < b for big-endian byte strings of one length.
RECURSIVE bytes_less(_, _)
bytes_less(a, b) ==
    IF a = <<>> THEN FALSE
    ELSE IF Head(a) # Head(b) THEN Head(a) < Head(b)
    ELSE bytes_less(Tail(a), Tail(b))

\* secp256k1::SecretKey::from_slice: 32 bytes, not zero, below the order.
SecretKey_from_slice(secret) ==
    IF Len(secret) = 32 /\ secret # KeyZero /\ bytes_less(secret, CurveOrder)
    THEN Ok(secret) ELSE Err("InvalidSecretKey")

\* PublicKey::from_secret_key(..).serialize_uncompressed(): 04 || x || y.
\* The point multiplication is not computed; the table holds the public
\* keys of the model's secret keys.
serialize_uncompressed(sk) ==
    CASE sk = Key42 ->
           <<4, 91, 229, 233, 71, 130, 9, 103, 74, 150, 230, 15, 31, 3, 127, 97,
             118, 84, 15, 208, 1, 250, 29, 100, 105, 71, 112, 197, 106, 119, 9, 196,
             44, 3, 90, 136, 195, 132, 61, 191, 139, 16, 213, 44, 199, 30, 38, 204,
             225, 113, 225, 170, 30, 50, 248, 225, 147, 201, 246, 166, 189, 143, 7,
             184, 191>>
      [] sk = KeySeq ->
           <<4, 132, 191, 117, 98, 38, 43, 189, 105, 64, 8, 87, 72, 243, 190,
             106, 250, 82, 174, 49, 113, 85, 24, 30, 206, 49, 182, 99, 81, 204, 255,
             164, 176, 140, 196, 61, 99, 178, 133, 157, 70, 159, 238, 21, 243, 28,
             158, 219, 83, 36, 38, 110, 111, 208, 64, 126, 135, 56, 45, 96, 252, 69,
             17, 172, 216>>

\* Byte arrays of 65 that derive_address is also applied to.  Their digests
\* are not computed either: Sha256_digest gives them digests whose Base58
\* text has 32, 35 and 36 characters (those of the two public keys have 44).
OtherPubkeys == {<<4>> \o Repeat(b, 64) : b \in 1 .. 3}

\* Sha256::digest of a DER-encoded public key (88 bytes), by table.
Sha256_digest(der) ==
    CASE der[25] = 91 ->
           <<230, 37, 250, 214, 125, 158, 52, 91, 6, 153, 223, 99, 116, 49,
             249, 235, 110, 19, 227, 164, 228, 62, 212, 187, 125, 208, 225, 15, 139,
             224, 201, 118>>
      [] der[25] = 132 ->
           <<247, 151, 105, 173, 82, 26, 221, 72, 232, 3, 32, 162, 44, 55,
             221, 31, 72, 133, 1, 45, 192, 173, 130, 217, 69, 246, 45, 173, 101, 77,
             48, 80>>
      [] der[25] = 1 -> Repeat(0, 32)
      [] der[25] = 2 -> Repeat(0, 22) \o <<1>> \o Repeat(0, 9)
      [] der[25] = 3 -> Repeat(0, 22) \o Repeat(255, 10)

\* encoded[encoded.len() - 36..], or all of encoded when it is shorter.
suffix_of(encoded) ==
    IF Len(encoded) >= 36
    THEN SubSeq(encoded, Len(encoded) - 36 + 1, Len(encoded))
    ELSE encoded

RECURSIVE sum_of_digits(_)
sum_of_digits(text) ==
    IF text = <<>> THEN 0
    ELSE (IF is_ascii_digit(Head(text)) THEN to_digit(Head(text)) ELSE 0)
           + sum_of_digits(Tail(text))

\* end.chars().filter(|c| c.is_ascii_digit()).map(to_digit).sum() % 9, with % 10 instead.
parity_of_mod_10(end) == sum_of_digits(end) % 10

\* end.chars().filter(|c| c.is_ascii_digit()).map(to_digit).sum() % 9
parity_of(end) == sum_of_digits(end) % 9

\* NodeIdentity::derive_address
derive_address(uncompressed_pubkey) ==
    LET prefix_bytes == hex_decode(PUBLIC_KEY_DER_PREFIX)
    IN  IF ~prefix_bytes.ok THEN prefix_bytes
        ELSE LET der == prefix_bytes.val \o Tail(uncompressed_pubkey)
                 hash == Sha256_digest(der)
                 encoded == bs58_encode(hash)
                 end == suffix_of(encoded)
                 parity == parity_of(end)
             IN  Ok(<<"N", "E", "T">> \o u32_to_string(parity) \o end)

\* NodeIdentity::from_secret_key
from_secret_key(secret) ==
    LET sk == SecretKey_from_slice(secret)
    IN  IF ~sk.ok THEN Err("Failed to create secret key")
        ELSE LET uncompressed == serialize_uncompressed(sk.val)
                 address == derive_address(uncompressed)
             IN  IF ~address.ok THEN address
                 ELSE Ok([secret_key |-> secret,
                          peer_id_hex |-> hex_encode(Tail(uncompressed)),
                          address |-> address.val])

\* The identity file: a JSON object, held as its members in the order they
\* stand in the text, or text that is no JSON at all.
NotJson == [json |-> "invalid", members |-> <<>>]
JsonObject(members) == [json |-> "object", members |-> members]

\* serde_json::to_string_pretty(&IdentityFile)
to_string_pretty(file) ==
    JsonObject(<<<<"secret_key", file.secret_key>>,
                 <<"peer_id", file.peer_id>>,
                 <<"address", file.address>>>>)

\* The values of the members called name.
member_values(contents, name) ==
    [i \in 1 .. Cardinality({j \in 1 .. Len(contents.members) : contents.members[j][1] = name})
       |-> contents.members[CHOOSE j \in 1 .. Len(contents.members) :
                /\ contents.members[j][1] = name
                /\ Cardinality({k \in 1 .. j : contents.members[k][1] = name}) = i][2]]

\* serde_json::from_str::<IdentityFile>: every field once, other members
\* are skipped.
from_str(contents) ==
    IF contents.json # "object" THEN Err("expected value")
    ELSE IF \E name \in {"secret_key", "peer_id", "address"} :
               Len(member_values(contents, name)) = 0
    THEN Err("missing field")
    ELSE IF \E name \in {"secret_key", "peer_id", "address"} :
               Len(member_values(contents, name)) > 1
    THEN Err("duplicate field")
    ELSE Ok([secret_key |-> member_values(contents, "secret_key")[1],
             peer_id |-> member_values(contents, "peer_id")[1],
             address |-> member_values(contents, "address")[1]])

\* The part of NodeIdentity::load after read_to_string, taking the first 32
\* bytes of a longer key.
load_contents_first_32(contents) ==
    LET file == from_str(contents)
    IN  IF ~file.ok THEN Err("Failed to parse identity file")
        ELSE LET secret_bytes == hex_decode(file.val.secret_key)
             IN  IF ~secret_bytes.ok THEN Err("Invalid secret key hex")
                 ELSE IF Len(secret_bytes.val) < 32 THEN Err("Secret key must be 32 bytes")
                 ELSE from_secret_key(SubSeq(secret_bytes.val, 1, 32))

\* The part of NodeIdentity::load after read_to_string.
load_contents(contents) ==
    LET file == from_str(contents)
    IN  IF ~file.ok THEN Err("Failed to parse identity file")
        ELSE LET secret_bytes == hex_decode(file.val.secret_key)
             IN  IF ~secret_bytes.ok THEN Err("Invalid secret key hex")
                 ELSE IF Len(secret_bytes.val) # 32 THEN Err("Secret key must be 32 bytes")
                 ELSE from_secret_key(secret_bytes.val)

\* The text NodeIdentity::save writes, the key cut to its first 16 bytes.
save_contents_half_key(self) ==
    to_string_pretty([secret_key |-> hex_encode(SubSeq(self.secret_key, 1, 16)),
                      peer_id |-> self.peer_id_hex,
                      address |-> self.address])

\* The text NodeIdentity::save writes.
save_contents(self) ==
    to_string_pretty([secret_key |-> hex_encode(self.secret_key),
                      peer_id |-> self.peer_id_hex,
                      address |-> self.address])

\* The two files of the model: the identity file of the service
\* (project_dir.join(config.identity_path)) and the temporary file that
\* test_save_and_load saves to and loads from.
IdentityPath == "identity.json"
TempPath == "tmp"
Paths == {IdentityPath, TempPath}

\* No file at the path (path.exists() is false).
Absent == [json |-> "absent", members |-> <<>>]

\* The file-system calls of load and save that can fail, one at most in a
\* call: read_to_string, create_dir_all, fs::write before it has written
\* anything ("create") or part-way ("write_all"), set_permissions.
IoFaults == {"none", "read_to_string", "create_dir_all", "create", "write_all",
             "set_permissions"}

\* NodeIdentity::load
load(contents, fault) ==
    IF contents = Absent \/ fault = "read_to_string"
    THEN Err("Failed to read identity file")
    ELSE load_contents(contents)

\* NodeIdentity::save: what it returns and what the file holds afterwards.
save(self, contents, fault) ==
    IF fault = "create_dir_all" THEN [ret |-> Err("create_dir_all"), contents |-> contents]
    ELSE IF fault = "create"
    THEN [ret |-> Err("Failed to write identity file"), contents |-> contents]
    ELSE IF fault = "write_all"
    THEN [ret |-> Err("Failed to write identity file"), contents |-> NotJson]
    ELSE IF fault = "set_permissions"
    THEN [ret |-> Err("set_permissions"), contents |-> save_contents(self)]
    ELSE [ret |-> Ok(<<>>), contents |-> save_contents(self)]

\* What rand::rng() may be asked for in load_or_generate: a key when there
\* is no file, nothing when there is one.
DrawnKeys(contents) == IF contents = Absent THEN SecretKeys ELSE {<<>>}

\* The file-system calls load_or_generate makes: those of load when there
\* is a file, those of save when there is none.
IoFaultsOn(contents) ==
    IF contents = Absent THEN IoFaults \ {"read_to_string"} ELSE {"none", "read_to_string"}

\* NodeIdentity::generate, secret being what the random generator filled in.
generate(secret) == from_secret_key(secret)

\* NodeIdentity::load_or_generate, generating whether or not the file exists.
load_or_generate_anew(contents, secret, fault) ==
    LET generated == generate(secret)
        saved == save(generated.val, contents, fault)
    IN  IF ~generated.ok THEN [ret |-> generated, contents |-> contents, drew |-> TRUE]
        ELSE IF ~saved.ret.ok
        THEN [ret |-> saved.ret, contents |-> saved.contents, drew |-> TRUE]
        ELSE [ret |-> generated, contents |-> saved.contents, drew |-> TRUE]

\* NodeIdentity::load_or_generate: what it returns, what the file holds
\* afterwards, and whether a key was drawn from the random generator.
load_or_generate(contents, secret, fault) ==
    IF contents # Absent
    THEN [ret |-> load(contents, fault), contents |-> contents, drew |-> FALSE]
    ELSE LET generated == generate(secret)
             saved == save(generated.val, contents, fault)
         IN  IF ~generated.ok THEN [ret |-> generated, contents |-> contents, drew |-> TRUE]
             ELSE IF ~saved.ret.ok
             THEN [ret |-> saved.ret, contents |-> saved.contents, drew |-> TRUE]
             ELSE [ret |-> generated, contents |-> saved.contents, drew |-> TRUE]

\* Every NodeIdentity there can be: the struct is built by from_secret_key only.
Identities == {from_secret_key(k).val : k \in {Key42, KeySeq}}

\* Upper-case hex of a byte string (hex::decode reads both cases).
hex_upper(bytes) ==
    LET lower == hex_encode(bytes)
    IN  [i \in 1 .. Len(lower) |->
           CASE lower[i] = "a" -> "A" [] lower[i] = "b" -> "B" [] lower[i] = "c" -> "C"
             [] lower[i] = "d" -> "D" [] lower[i] = "e" -> "E" [] lower[i] = "f" -> "F"
             [] OTHER -> lower[i]]

\* An identity file with the given secret_key text; peer_id and address are
\* those of the identity of Key42.
FileWithKey(text) ==
    to_string_pretty([secret_key |-> text,
                      peer_id |-> from_secret_key(Key42).val.peer_id_hex,
                      address |-> from_secret_key(Key42).val.address])

\* What may stand at the identity path when the program starts: nothing, a
\* file an earlier run saved, the same with the key in upper case or with
\* the fields of another key beside it, keys of 31, 33 and 0 bytes, hex of
\* odd length, a character that is no hex digit, a key of 32 zero bytes, an
\* object without secret_key, and text that is no JSON.
InitialFiles ==
    {Absent,
     save_contents(from_secret_key(Key42).val),
     FileWithKey(hex_upper(Key42)),
     FileWithKey(hex_encode(KeySeq)),
     FileWithKey(hex_encode(Repeat(42, 31))),
     FileWithKey(hex_encode(Repeat(42, 33))),
     FileWithKey(<<>>),
     FileWithKey(Tail(hex_encode(Key42))),
     FileWithKey(<<"x", "y">> \o hex_encode(Repeat(42, 31))),
     FileWithKey(hex_encode(KeyZero)),
     JsonObject(<<<<"peer_id", <<>>>>, <<"address", <<>>>>>>),
     NotJson}

\* RealityClient::cluster_info at start-up: Ok or Err.
ClusterInfo == {"reachable", "unreachable"}

\* NetworkService::new, failing also when the cluster is not reachable.
NetworkService_new_strict(identity_ret, cluster) ==
    IF identity_ret.ok /\ cluster = "reachable" THEN "Ok" ELSE "Err"

\* NetworkService::new: Ok((service, notifier)) or Err, from what
\* load_or_generate returned and what the health check found.
NetworkService_new(identity_ret, cluster) ==
    IF ~identity_ret.ok THEN "Err" ELSE "Ok"

\* No BotEngine::new yet.
NoEngine == [new |-> "none", network |-> "none", identity |-> "none",
             cluster |-> "none", notifier |-> "none", spawned |-> FALSE]

\* BotEngine::new with network.enabled set: NetworkService::new(..).await?,
\* then tokio::spawn(service.run()) and the notifier it returned.
BotEngine_new_enabled(identity_ret, cluster) ==
    IF NetworkService_new(identity_ret, cluster) = "Err"
    THEN [new |-> "Err", network |-> "Err",
          identity |-> IF identity_ret.ok THEN "Ok" ELSE "Err",
          cluster |-> IF identity_ret.ok THEN cluster ELSE "none",
          notifier |-> "none", spawned |-> FALSE]
    ELSE [new |-> "Ok", network |-> "Ok",
          identity |-> IF identity_ret.ok THEN "Ok" ELSE "Err",
          cluster |-> cluster, notifier |-> "enabled", spawned |-> TRUE]

\* BotEngine::new with network.enabled unset: NetworkNotifier::disabled().
BotEngine_new_disabled ==
    [new |-> "Ok", network |-> "none", identity |-> "none", cluster |-> "none",
     notifier |-> "disabled", spawned |-> FALSE]

\* No NodeIdentity function was called yet.
NoCall == [op |-> "none"]

\* The node identity the service owns (load_or_generate succeeded).
identity == [secret_key |-> "sk", peer_id_hex |-> "04peer", address |-> "NET0addr"]

\* NodeIdentity::sign_hash_hex: an uninterpreted function of key and hash.
sign_hash_hex(self, hash_hex) == <<"ecdsa", self.secret_key, hash_hex>>

\* NodeIdentity::sign_value, the proof carrying the address.
sign_value_id_address(self, v) ==
    [value |-> v,
     proofs |-> <<[id |-> self.address,
                   signature |-> sign_hash_hex(self, hash_value(v))]>>]

\* NodeIdentity::sign_value
sign_value(self, v) ==
    [value |-> v,
     proofs |-> <<[id |-> self.peer_id_hex,
                   signature |-> sign_hash_hex(self, hash_value(v))]>>]

\* A genesis cursor of 68 zeros.
GenesisHash_68 == "00000000000000000000000000000000000000000000000000000000000000000000"

\* The chain cursor a new service starts with.
GenesisHash == "0000000000000000000000000000000000000000000000000000000000000000"


\* ------------------------------------------------------------ the store
\* Fingerprint of one order row: DefaultHasher over "id:total:phone",
\* printed as hex.  Not computed: an uninterpreted injective function of the
\* row id, written as the two bytes "h<digit>".
OrderFingerprint(id) == <<104, 48 + id>>

\* Store::list_orders(None): ORDER BY created_at DESC, newest row first.
list_orders(n) == [i \in 1 .. n |-> n + 1 - i]

\* snapshot::capture_state over a store holding n order rows, none of them
\* delivered yet, and no vouchers, read at clock value t.
capture_state(n, t) ==
    [version |-> 1,
     business_name |-> BusinessName,
     timestamp_ms |-> t,
     total_orders |-> n,
     total_revenue_cents |-> 0,
     active_orders |-> n,
     delivered_orders |-> 0,
     vouchers |-> [total_created |-> 0, total_redeemed |-> 0,
                   total_value_created_cents |-> 0,
                   total_value_redeemed_cents |-> 0],
     order_hashes |-> [i \in 1 .. n |-> OrderFingerprint(list_orders(n)[i])]]

\* ---------------------------------------------------------- the gateway
\* Answers the L0 node can give to the POST; the boundary values of the
\* 2xx range are among them.
HttpStatuses == {199, 200, 299, 300, 500}

\* A client that takes every status below 400 for success.
is_success_below_400(status) == status < 400

\* reqwest StatusCode::is_success
is_success(status) == 200 <= status /\ status < 300

\* ------------------------------------------- message handling (pure part)
\* Phone numbers that write to the bot; the second is in config.admin_numbers.
Senders == {"27820000001", "27820000009"}
admin_numbers == {"27820000009"}

\* HiveConfig::is_admin
is_admin(phone) == phone \in admin_numbers

\* config.available_menu(): the available items, numbered 1 .. MenuSize.
MenuSize == 2

\* Codes generate_voucher_code can return, and the code the texts use.
VoucherCodes == {"HIVE-AAAA-AAAA"}

\* Tasks that call Store::redeem_voucher, one call each.
NumRedeemers == 3
Redeemers == 1 .. NumRedeemers

\* Codes the calls of redeem_voucher and create_voucher are made with.
StoredCodes == {"HIVE-AAAA-AAAA", "HIVE-BBBB-BBBB"}

\* Amounts of the vouchers created.
VoucherAmounts == {50}

\* Message texts after trim(); "" is a message without text or caption.
Texts ==
    {"", "hi", "Cancel", "0", "1", "2", "3", "4", "9", "menu", "yes", "add 2",
     "ADMIN", "exit", "done 1", "done 9", "voucher 50", "stats", "orders",
     "hive-aaaa-aaaa", "12 Main St", "Home", "hello", "y", "Confirm"}

\* str::to_uppercase on the texts.
to_uppercase(text) ==
    CASE text = "hi" -> "HI"
      [] text = "Cancel" -> "CANCEL"
      [] text = "menu" -> "MENU"
      [] text = "yes" -> "YES"
      [] text = "add 2" -> "ADD 2"
      [] text = "exit" -> "EXIT"
      [] text = "done 1" -> "DONE 1"
      [] text = "done 9" -> "DONE 9"
      [] text = "voucher 50" -> "VOUCHER 50"
      [] text = "stats" -> "STATS"
      [] text = "orders" -> "ORDERS"
      [] text = "hive-aaaa-aaaa" -> "HIVE-AAAA-AAAA"
      [] text = "12 Main St" -> "12 MAIN ST"
      [] text = "Home" -> "HOME"
      [] text = "hello" -> "HELLO"
      [] text = "y" -> "Y"
      [] text = "Confirm" -> "CONFIRM"
      [] OTHER -> text

\* a.eq_ignore_ascii_case(b)
eq_ignore_ascii_case(a, b) == to_uppercase(a) = to_uppercase(b)

\* text.parse::<usize>(): the number, or -1 for Err.
parse_usize(text) ==
    CASE text = "0" -> 0
      [] text = "1" -> 1
      [] text = "2" -> 2
      [] text = "3" -> 3
      [] text = "4" -> 4
      [] text = "9" -> 9
      [] OTHER -> -1

\* parse_item_selections: the item numbers of the parts of the text that
\* parse to a positive number (quantities are left out of the model).
parse_item_selections(text) ==
    CASE text \in {"1", "2", "3", "4", "9"} -> <<parse_usize(text)>>
      [] text = "add 2" -> <<2>>
      [] text = "done 1" -> <<1>>
      [] text = "done 9" -> <<9>>
      [] text = "voucher 50" -> <<50>>
      [] text = "12 Main St" -> <<12>>
      [] OTHER -> <<>>

\* `text_upper.starts_with("DONE ")` and `text_upper[5..].trim().parse::<i64>()`:
\* the order id, or -1 when either fails.
parse_done(text_upper) ==
    CASE text_upper = "DONE 1" -> 1
      [] text_upper = "DONE 9" -> 9
      [] OTHER -> -1

\* `text_upper.starts_with("VOUCHER ")` and the parse of the amount: the
\* amount, or -1 when either fails.
parse_voucher(text_upper) ==
    CASE text_upper = "VOUCHER 50" -> 50
      [] OTHER -> -1

\* ConversationState, with a cart as the set of menu items in it.
ConvState(tag, cart) == [tag |-> tag, cart |-> cart]
Idle == ConvState("Idle", {})

\* ConversationState::is_in_order_flow
is_in_order_flow(state) ==
    state.tag \in {"BuildingOrder", "ConfirmingOrder", "AwaitingLocation"}

\* The points of handle_incoming_message that can return Err, one of which a
\* message may hit: get_conversation_state, the first write of the routed
\* handler, set_order_location, send_text_reply, save_conversation_state.
Faults == {"none", "load", "write", "set_order_location", "send", "save"}

\* What a routed handler returns: Ok(Reply), Ok(NoReply) or Err, with the
\* conversation state and the tables it leaves.
Routed(kind, reply, state, tables) ==
    [kind |-> kind, reply |-> reply, state |-> state, db |-> tables]

\* The items of a selection that are on the menu.
valid_items(selections) ==
    {selections[i] : i \in {j \in DOMAIN selections : selections[j] <= MenuSize}}

\* handlers::order::handle_item_selection without the check of an empty cart.
handle_item_selection_unchecked(ctx, state, tables) ==
    LET selections == parse_item_selections(ctx.text)
    IN IF selections = <<>>
       THEN Routed("Reply", "how_to_order", state, tables)
       ELSE Routed("Reply", "order_summary",
                   ConvState("ConfirmingOrder", valid_items(selections)), tables)

\* handlers::order::handle_item_selection
handle_item_selection(ctx, state, tables) ==
    LET selections == parse_item_selections(ctx.text)
        cart == valid_items(selections)
    IN IF selections = <<>>
       THEN Routed("Reply", "how_to_order", state, tables)
       ELSE IF cart = {}
       THEN Routed("Reply", "invalid_items", state, tables)
       ELSE Routed("Reply", "order_summary", ConvState("ConfirmingOrder", cart), tables)

\* handlers::order::handle_building_order
handle_building_order(ctx, state, tables) ==
    LET selections == parse_item_selections(ctx.text)
    IN IF selections # <<>>
       THEN Routed("Reply", "updated_order",
                   ConvState("ConfirmingOrder", state.cart \cup valid_items(selections)),
                   tables)
       ELSE Routed("Reply", "how_to_add", state, tables)

\* upper.starts_with("ADD")
starts_with_add(upper) == upper \in {"ADD 2"}

\* handlers::order::handle_order_confirmation
handle_order_confirmation(ctx, state, tables) ==
    LET upper == to_uppercase(ctx.text)
    IN IF upper \in {"YES", "Y", "CONFIRM"}
       THEN Routed("Reply", "ask_location", ConvState("AwaitingLocation", state.cart), tables)
       ELSE IF starts_with_add(upper)
       THEN Routed("Reply", "ask_items", ConvState("BuildingOrder", state.cart), tables)
       ELSE Routed("Reply", "order_total", state, tables)

\* Store::create_order: a new row, in the schema's default status.
create_order(tables) ==
    [tables EXCEPT !.orders = Append(@, [status |-> "pending"])]

\* Store::set_order_location: the row gets its location and is confirmed.
set_order_location(tables, order_id) ==
    [tables EXCEPT !.orders[order_id].status = "confirmed"]

\* Store::update_order_status
update_order_status(tables, order_id, status) ==
    IF order_id \in DOMAIN tables.orders
    THEN [tables EXCEPT !.orders[order_id].status = status]
    ELSE tables

\* handlers::order::handle_location_input
handle_location_input(ctx, state, tables, fault) ==
    IF ~ctx.has_location /\ ctx.text = ""
    THEN Routed("Reply", "ask_location", state, tables)
    ELSE IF fault = "write"
    THEN Routed("Err", "", state, tables)
    ELSE LET created == create_order(tables)
             order_id == Len(created.orders)
         IN IF fault = "set_order_location"
            THEN Routed("Err", "", state, created)
            ELSE Routed("Reply", "order_confirmed", Idle,
                        set_order_location(created, order_id))

\* OrderHandler::handle
OrderHandler(ctx, state, tables, fault) ==
    CASE state.tag = "ViewingMenu" -> handle_item_selection(ctx, state, tables)
      [] state.tag = "BuildingOrder" -> handle_building_order(ctx, state, tables)
      [] state.tag = "ConfirmingOrder" -> handle_order_confirmation(ctx, state, tables)
      [] state.tag = "AwaitingLocation" -> handle_location_input(ctx, state, tables, fault)
      [] OTHER -> Routed("NoReply", "", state, tables)

\* The stores of a new database: no order, no voucher, no conversation row
\* (a sender without a row is in the default state, Idle).
NoTables == [orders |-> <<>>, vouchers |-> [c \in VoucherCodes |-> "absent"]]

\* Store::redeem_voucher: the tables after the call, and whether it returned
\* Some(amount).
redeem_voucher(tables, code, phone) ==
    IF code \in VoucherCodes /\ tables.vouchers[code] = "unredeemed"
    THEN [some |-> TRUE, db |-> [tables EXCEPT !.vouchers[code] = phone]]
    ELSE [some |-> FALSE, db |-> tables]

\* VoucherHandler::handle
VoucherHandler(ctx, state, tables, fault) ==
    LET code == to_uppercase(ctx.text)
        redeemed == redeem_voucher(tables, code, ctx.sender)
    IN IF code = ""
       THEN Routed("Reply", "ask_code", state, tables)
       ELSE IF redeemed.some
       THEN IF fault = "write"
            THEN Routed("Err", "", state, tables)
            ELSE Routed("Reply", "voucher_redeemed", Idle, redeemed.db)
       ELSE IF code \in VoucherCodes /\ tables.vouchers[code] # "absent"
       THEN Routed("Reply", "already_redeemed", Idle, tables)
       ELSE Routed("Reply", "voucher_invalid", state, tables)

\* MenuHandler::handle
MenuHandler(ctx, state, tables) ==
    IF MenuSize = 0
    THEN Routed("Reply", "menu_empty", state, tables)
    ELSE Routed("Reply", "menu", ConvState("ViewingMenu", {}), tables)

\* handlers::route_message
route_message(ctx, state, tables, fault) ==
    IF ctx.is_group
    THEN Routed("NoReply", "", state, tables)
    ELSE IF state.tag \in {"BuildingOrder", "ConfirmingOrder", "AwaitingLocation"}
    THEN OrderHandler(ctx, state, tables, fault)
    ELSE IF state.tag = "ViewingMenu"
            /\ (parse_usize(ctx.text) >= 0 \/ eq_ignore_ascii_case(ctx.text, "order"))
    THEN OrderHandler(ctx, state, tables, fault)
    ELSE IF state.tag = "RedeemingVoucher"
    THEN VoucherHandler(ctx, state, tables, fault)
    ELSE CASE ctx.text \in {"1", "menu"} -> MenuHandler(ctx, state, tables)
           [] ctx.text \in {"2", "orders", "my orders"} ->
                Routed("Reply", "my_orders", state, tables)
           [] ctx.text \in {"3", "voucher", "redeem"} ->
                Routed("Reply", "ask_code", ConvState("RedeemingVoucher", {}), tables)
           [] ctx.text \in {"4", "about"} -> Routed("Reply", "about", state, tables)
           [] OTHER -> Routed("Reply", "welcome", state, tables)

\* handlers::handle_admin_done (state: what the router passes back unchanged)
handle_admin_done(state, tables, order_id, fault) ==
    IF order_id \in DOMAIN tables.orders
    THEN IF fault = "write"
         THEN Routed("Err", "", state, tables)
         ELSE Routed("Reply", "marked_delivered", state,
                     update_order_status(tables, order_id, "delivered"))
    ELSE Routed("Reply", "order_not_found", state, tables)

\* handlers::handle_admin_create_voucher, for the code generate_voucher_code
\* returned: the INSERT fails on a code the table already has (UNIQUE).
handle_admin_create_voucher(state, tables, code, fault) ==
    IF fault = "write" \/ tables.vouchers[code] # "absent"
    THEN Routed("Err", "", state, tables)
    ELSE Routed("Reply", "voucher_created", state,
                [tables EXCEPT !.vouchers[code] = "unredeemed"])

\* The text commands of route_admin_message, which work in and out of admin
\* mode: the handler's result, or NoReply when the text is no command.
admin_command(text_upper, state, tables, code, fault) ==
    CASE parse_done(text_upper) >= 0 ->
              handle_admin_done(state, tables, parse_done(text_upper), fault)
         [] parse_voucher(text_upper) >= 0 ->
              handle_admin_create_voucher(state, tables, code, fault)
         [] text_upper \in {"ORDERS", "PENDING"} ->
              Routed("Reply", "pending_orders", state, tables)
         [] text_upper = "STATS" -> Routed("Reply", "stats", state, tables)
         [] OTHER -> Routed("NoReply", "", state, tables)

\* handlers::route_admin_message
route_admin_message(ctx, state, tables, code, fault) ==
    LET text_upper == to_uppercase(ctx.text)
        command == admin_command(text_upper, state, tables, code, fault)
    IN IF text_upper = "ADMIN"
       THEN Routed("Reply", "admin_menu", ConvState("AdminMode", {}), tables)
       ELSE IF state.tag = "AdminMode" /\ (text_upper = "EXIT" \/ ctx.text = "0")
       THEN Routed("Reply", "welcome", Idle, tables)
       ELSE IF state.tag = "AdminMode"
       THEN CASE ctx.text = "1" -> Routed("Reply", "pending_orders", state, tables)
              [] ctx.text = "2" -> Routed("Reply", "stats", state, tables)
              [] ctx.text = "3" -> Routed("Reply", "voucher_help", state, tables)
              [] command.kind # "NoReply" -> command
              [] OTHER -> Routed("Reply", "admin_help", state, tables)
       ELSE IF command.kind # "NoReply"
       THEN command
       ELSE route_message(ctx, state, tables, fault)

\* What handle_incoming_message comes to: its return value, the persisted
\* conversation state of the sender and the tables.
Outcome(ret, reply, state, tables) ==
    [ret |-> ret, reply |-> reply, state |-> state, db |-> tables]

\* handle_incoming_message: `!matches!(result, HandlerResult::NoReply)`.
state_changed(result, tables) == result.kind # "NoReply"

\* bot::handle_incoming_message, for a message msg that hits fault, with the
\* sender's persisted state and the tables as they are.
handle_incoming_message(msg, persisted, tables, code, fault) ==
    LET ctx == [sender |-> msg.sender, text |-> msg.text,
                is_admin |-> is_admin(msg.sender), is_group |-> msg.is_group,
                has_location |-> msg.has_location]
        result == IF ctx.is_admin
                  THEN route_admin_message(ctx, persisted, tables, code, fault)
                  ELSE route_message(ctx, persisted, tables, fault)
    IN IF msg.is_from_me
       THEN Outcome("Ok(false)", "", persisted, tables)
       ELSE IF msg.text = "" /\ ~msg.has_location
       THEN Outcome("Ok(false)", "", persisted, tables)
       ELSE IF fault = "load"
       THEN Outcome("Err", "", persisted, tables)
       ELSE IF /\ persisted.tag # "AdminMode"
               /\ to_uppercase(msg.text) \in {"CANCEL", "0", "HOME", "HI", "HELLO"}
               /\ (is_in_order_flow(persisted) \/ persisted.tag # "Idle")
       THEN IF fault \in {"send", "save"}
            THEN Outcome("Err", "", persisted, tables)
            ELSE Outcome("Ok(false)", "welcome", Idle, tables)
       ELSE IF result.kind = "Err"
       THEN Outcome("Err", "", persisted, result.db)
       ELSE IF result.kind = "Reply" /\ fault = "send"
       THEN Outcome("Err", "", persisted, result.db)
       ELSE IF fault = "save"
       THEN Outcome("Err", "", persisted, result.db)
       ELSE Outcome(IF state_changed(result, tables) THEN "Ok(true)" ELSE "Ok(false)",
                    result.reply, result.state, result.db)

\* ----------------------------------------------------- codec (decoding)
\* What a reader of MessagePack gives: the value read and the position of
\* the next byte, or a failure.
Read(val, next) == [ok |-> TRUE, val |-> val, next |-> next]
NoRead == [ok |-> FALSE, val |-> 0, next |-> 0]

\* The unsigned big-endian number in bytes[pos .. pos + n - 1].
RECURSIVE be_uint(_, _, _)
be_uint(bytes, pos, n) ==
    IF n = 0 THEN 0
    ELSE be_uint(bytes, pos, n - 1) * 256 + bytes[pos + n - 1]

\* rmp::decode of an integer of any MessagePack integer format the encoder
\* of the model writes: fixint, uint8/16/32, int8/16.
read_int(bytes, pos) ==
    IF pos > Len(bytes) THEN NoRead
    ELSE LET marker == bytes[pos]
             width == CASE marker = 204 \/ marker = 208 -> 1
                        [] marker = 205 \/ marker = 209 -> 2
                        [] marker = 206 -> 4
                        [] OTHER -> 0
         IN  IF marker < 128 THEN Read(marker, pos + 1)
             ELSE IF marker >= 224 THEN Read(marker - 256, pos + 1)
             ELSE IF width = 0 \/ pos + width > Len(bytes) THEN NoRead
             ELSE IF marker = 208 /\ bytes[pos + 1] >= 128
             THEN Read(be_uint(bytes, pos + 1, 1) - 256, pos + 2)
             ELSE IF marker = 209 /\ bytes[pos + 1] >= 128
             THEN Read(be_uint(bytes, pos + 1, 2) - 65536, pos + 3)
             ELSE Read(be_uint(bytes, pos + 1, width), pos + 1 + width)

\* An integer field of an unsigned type: a negative value is refused.
read_unsigned(bytes, pos) ==
    LET r == read_int(bytes, pos)
    IN  IF r.ok /\ r.val < 0 THEN NoRead ELSE r

\* A String field: fixstr header, then that many bytes.
read_str(bytes, pos) ==
    IF pos > Len(bytes) \/ bytes[pos] < 160 \/ bytes[pos] > 191 THEN NoRead
    ELSE LET len == bytes[pos] - 160
         IN  IF pos + len > Len(bytes) THEN NoRead
             ELSE Read(SubSeq(bytes, pos + 1, pos + len), pos + 1 + len)

\* The header of a fixarray: its length.
read_array_len(bytes, pos) ==
    IF pos > Len(bytes) \/ bytes[pos] < 144 \/ bytes[pos] > 159 THEN NoRead
    ELSE Read(bytes[pos] - 144, pos + 1)

\* Vec<String>: n strings one after the other.
RECURSIVE read_strs(_, _, _)
read_strs(bytes, pos, n) ==
    IF n = 0 THEN Read(<<>>, pos)
    ELSE LET first == read_str(bytes, pos)
             rest == read_strs(bytes, first.next, n - 1)
         IN  IF ~first.ok \/ ~rest.ok THEN NoRead
             ELSE Read(<<first.val>> \o rest.val, rest.next)

\* The fields of a struct one after the other, each read as its type says.
RECURSIVE read_fields(_, _, _)
read_fields(bytes, pos, types) ==
    IF types = <<>> THEN Read(<<>>, pos)
    ELSE LET type == Head(types)
             len == read_array_len(bytes, pos)
             first ==
                 CASE type = "u32" \/ type = "u64" -> read_unsigned(bytes, pos)
                   [] type = "i64" -> read_int(bytes, pos)
                   [] type = "String" -> read_str(bytes, pos)
                   [] type = "Vec<String>" ->
                        IF ~len.ok THEN NoRead ELSE read_strs(bytes, len.next, len.val)
                   [] type = "VoucherStateSummary" ->
                        IF ~len.ok \/ len.val # 4 THEN NoRead
                        ELSE read_fields(bytes, len.next, <<"u64", "u64", "i64", "i64">>)
             rest == read_fields(bytes, first.next, Tail(types))
         IN  IF ~first.ok \/ ~rest.ok THEN NoRead
             ELSE Read(<<first.val>> \o rest.val, rest.next)

\* HiveStateSnapshot::from_bytes, the order_hashes read back to front.
from_bytes_reversed(bytes) ==
    LET len == read_array_len(bytes, 1)
        f == read_fields(bytes, len.next,
                         <<"u32", "String", "u64", "u64", "i64", "u32", "u64",
                           "VoucherStateSummary", "Vec<String>">>)
    IN  IF ~len.ok \/ len.val # 9 \/ ~f.ok THEN Err("rmp_serde::decode::Error")
        ELSE Ok([version |-> f.val[1], business_name |-> f.val[2],
                 timestamp_ms |-> f.val[3], total_orders |-> f.val[4],
                 total_revenue_cents |-> f.val[5], active_orders |-> f.val[6],
                 delivered_orders |-> f.val[7],
                 vouchers |-> [total_created |-> f.val[8][1],
                               total_redeemed |-> f.val[8][2],
                               total_value_created_cents |-> f.val[8][3],
                               total_value_redeemed_cents |-> f.val[8][4]],
                 order_hashes |-> [i \in 1 .. Len(f.val[9]) |->
                                      f.val[9][Len(f.val[9]) + 1 - i]]])

\* HiveStateSnapshot::from_bytes: the struct read back from the MessagePack
\* array of its nine fields.
from_bytes(bytes) ==
    LET len == read_array_len(bytes, 1)
        f == read_fields(bytes, len.next,
                         <<"u32", "String", "u64", "u64", "i64", "u32", "u64",
                           "VoucherStateSummary", "Vec<String>">>)
    IN  IF ~len.ok \/ len.val # 9 \/ ~f.ok THEN Err("rmp_serde::decode::Error")
        ELSE Ok([version |-> f.val[1], business_name |-> f.val[2],
                 timestamp_ms |-> f.val[3], total_orders |-> f.val[4],
                 total_revenue_cents |-> f.val[5], active_orders |-> f.val[6],
                 delivered_orders |-> f.val[7],
                 vouchers |-> [total_created |-> f.val[8][1],
                               total_redeemed |-> f.val[8][2],
                               total_value_created_cents |-> f.val[8][3],
                               total_value_redeemed_cents |-> f.val[8][4]],
                 order_hashes |-> f.val[9]])

\* `b as u8`: reinterpret a signed byte as an unsigned one.
AsU8(b) == IF b < 0 THEN b + 256 ELSE b

\* StateChannelSnapshotBinary::content_unsigned
content_unsigned(self) == [i \in 1 .. Len(self.content) |-> AsU8(self.content[i])]

\* ---------------------------------------------------------------- state
VARIABLES
    enabled,            \* config.network.enabled: which notifier BotEngine::new built
    dirty,              \* the AtomicBool the notifier holds
    notify_state,       \* tokio Notify: "EMPTY", "WAITING" or "NOTIFIED" (a stored permit)
    waiter_notified,    \* the loop's registered Notified future has been handed a notification
    pc,                 \* position of NetworkService::run ("none": no service was spawned)
    caller_pc,          \* position of each message-handler task
    calls_made,         \* state-changing messages handled so far
    budget,             \* state-changing messages this behaviour may handle
    store_orders,       \* order rows in the store
    last_snapshot_hash, \* the chain cursor (NetworkService.last_snapshot_hash)
    hive_state,         \* submit_snapshot's local: <<>> or <<HiveStateSnapshot>>
    sc_binary,          \* submit_snapshot's local: <<>> or <<StateChannelSnapshotBinary>>
    signed,             \* submit_snapshot's local: <<>> or <<Signed>>
    inflight,           \* POST requests sent and not yet answered
    h                   \* history of the behaviour (read by the properties only)

\* The message-handling layer (src/bot/mod.rs, src/handlers): what the store
\* holds for it, and what each handler task's last message came to.
VARIABLES
    conversation,       \* conversations table: phone -> persisted ConversationState
    db,                 \* orders and vouchers tables
    handled             \* per handler task: what handle_incoming_message just returned

messaging == <<conversation, db, handled>>

\* Start-up (BotEngine::new, NetworkService::new) and the node identity
\* (src/network/identity.rs).
VARIABLES
    files,              \* the file system: path -> contents of the file there, or Absent
    call,               \* the latest call of a function of the identity, the codec or
                        \* the client, and what it came to
    engine,             \* what BotEngine::new came to, and NetworkService::new inside it
    origin              \* history: the identity a generating load_or_generate returned

booting == <<files, call, engine, origin>>

\* The store's connection and the calls of Store::redeem_voucher on it
\* (src/store/mod.rs), each call by a task of its own.
VARIABLES
    conn,               \* Mutex<Connection>: the task that holds the guard, or NoTask
    vouchers,           \* vouchers table: code -> NoRow or its row (amount, redeemed_by)
    redeem              \* per task: where its redeem_voucher call is, its arguments,
                        \* its local `amount` and what it returned

redeeming == <<conn, vouchers, redeem>>

\* What the run loop and mark_dirty never touch.
elsewhere == <<messaging, booting, redeeming>>

vars == <<enabled, dirty, notify_state, waiter_notified, pc, caller_pc, calls_made,
          budget, store_orders, last_snapshot_hash, hive_state, sc_binary, signed,
          inflight, h, elsewhere>>

shared == <<dirty, notify_state, waiter_notified>>
locals == <<hive_state, sc_binary, signed>>
callers == <<caller_pc, calls_made, budget, store_orders>>

\* No task holds the connection.
NoTask == 0

\* A code without a row in the vouchers table, and the row create_voucher
\* inserts: redeemed_by is NULL.
NoRow == [amount |-> 0, redeemed_by |-> "absent"]
NewVoucher(amount) == [amount |-> amount, redeemed_by |-> "NULL"]

\* A task that has not called redeem_voucher.
NotCalled == [pc |-> "idle", code |-> "", redeemed_by |-> "", amount |-> <<>>,
              ret |-> [op |-> "none"]]

\* What handle_incoming_message came to, kept from its return to the match
\* on it in Event::Message: the message it ran on, the value returned, the
\* reply sent, and whether the order or voucher tables changed while it ran.
NoMessage == [sender |-> "", text |-> "", is_from_me |-> FALSE, is_group |-> FALSE,
              has_location |-> FALSE]
NotHandled == [msg |-> NoMessage, ret |-> "none", reply |-> "", wrote |-> FALSE]

\* The history record, at the start of a behaviour.
InitHistory ==
    [cycles |-> "none",      \* calls of submit_snapshot so far: "none", "one" or "more"
     unserved |-> 0,         \* batches of mark_dirty stores (stores with no read-and-clear
                             \* between them) begun, less the calls of submit_snapshot
     stored_since_swap |-> FALSE,  \* a mark_dirty store happened since the last read-and-clear
     woke_by |-> "none",     \* cause of the latest wake-up, "notify" or "timer" (kept until
                             \* a cycle starts or the loop polls select! again)
     swapped |-> "none",     \* what the latest read-and-clear returned, "true" or "false"
                             \* (kept until the loop polls select! again)
     dirty_at_wake |-> FALSE,      \* the flag was set when the loop last woke up (kept until
                                   \* the read-and-clear that follows)
     stored_since_wake |-> FALSE,  \* a mark_dirty store happened between that wake-up and now
                                   \* (kept until the read-and-clear that follows)
     took_fresh |-> FALSE,   \* the latest read-and-clear took a store made after the
                             \* wake-up that preceded it
     cycle |-> "none",       \* the latest cycle: "running", "ok" or "err"
     status |-> 0,           \* HTTP status a cycle that has just ended was answered, 0 if none
     cursor_before |-> "",   \* the cursor when the latest cycle started
     accepted |-> <<>>,      \* envelope values of the cycles that returned Ok
     stored_since_failure |-> FALSE, \* the latest cycle failed and a mark_dirty store followed
     uncaptured |-> FALSE,   \* a mark_dirty store not yet followed by a capture_state call
     post_owed |-> FALSE]    \* the cycle in progress began with a read-and-clear that
                             \* returned true and has sent no POST yet

\* NetworkService::new followed by tokio::spawn(service.run()), or
\* NetworkNotifier::disabled(), as BotEngine::new chooses.
InitWith(b) ==
    /\ enabled \in BOOLEAN
    /\ dirty = FALSE
    /\ notify_state = "EMPTY"
    /\ waiter_notified = FALSE
    /\ pc = IF enabled THEN "select" ELSE "none"
    /\ caller_pc = [c \in Callers |-> "idle"]
    /\ calls_made = 0
    /\ budget = b
    /\ store_orders = 0
    /\ last_snapshot_hash = GenesisHash
    /\ hive_state = <<>>
    /\ sc_binary = <<>>
    /\ signed = <<>>
    /\ inflight = <<>>
    /\ h = InitHistory
    /\ conversation = [s \in Senders |-> Idle]
    /\ db = NoTables
    /\ handled = [c \in Callers |-> NotHandled]
    /\ files = [p \in Paths |-> IF p = IdentityPath
                                THEN save_contents(from_secret_key(Key42).val)
                                ELSE Absent]
    /\ call = NoCall
    /\ engine = IF enabled
                THEN BotEngine_new_enabled(from_secret_key(Key42), "reachable")
                ELSE BotEngine_new_disabled
    /\ origin = <<>>
    /\ conn = NoTask
    /\ vouchers = [c \in StoredCodes |-> NoRow]
    /\ redeem = [t \in Redeemers |-> NotCalled]

Init == InitWith(MaxCalls)


\* ------------------------------------------------- the message handlers
\* A handler task processes one message that changes persisted state:
\* handle_incoming_message creates an order row and returns Ok(true).
HandleMessage(c) ==
    /\ caller_pc[c] = "idle"
    /\ calls_made < budget
    /\ store_orders' = store_orders + 1
    /\ calls_made' = calls_made + 1
    /\ caller_pc' = [caller_pc EXCEPT ![c] = "changed"]
    /\ UNCHANGED <<elsewhere, enabled, shared, pc, budget, last_snapshot_hash, locals, inflight, h>>

\* A mark_dirty that does not look at `enabled`.
mark_dirty_acts_always == TRUE

\* mark_dirty: `if self.enabled`.
mark_dirty_acts == enabled

\* The history after a mark_dirty store.
StoreHistory ==
    [h EXCEPT !.unserved = IF h.stored_since_swap THEN @ ELSE @ + 1,
              !.stored_since_swap = TRUE,
              !.stored_since_failure = (h.cycle = "err"),
              !.stored_since_wake = (pc = "woken"),
              !.uncaptured = TRUE]

\* mark_dirty, first half: state_changed was true, the notifier is asked;
\* an enabled notifier stores true into the dirty flag.
MarkDirtyStore(c) ==
    /\ caller_pc[c] = "changed"
    /\ IF mark_dirty_acts
       THEN /\ dirty' = TRUE
            /\ caller_pc' = [caller_pc EXCEPT ![c] = "notify"]
            /\ h' = StoreHistory
       ELSE /\ caller_pc' = [caller_pc EXCEPT ![c] = "idle"]
            /\ UNCHANGED <<dirty, h>>
    /\ UNCHANGED <<elsewhere, enabled, notify_state, waiter_notified, pc, calls_made, budget,
                   store_orders, last_snapshot_hash, locals, inflight>>

\* A notifier that calls notify_waiters(): registered waiters are woken, and
\* with no waiter nothing is stored.
notify_waiters_only(st, wn) ==
    IF st = "WAITING"
    THEN [state |-> "EMPTY", waiter |-> TRUE]
    ELSE [state |-> st, waiter |-> wn]

\* tokio Notify::notify_one: a registered waiter is handed the notification
\* and leaves the wait list; with no waiter a single permit is stored.
notify_one(st, wn) ==
    IF st = "WAITING"
    THEN [state |-> "EMPTY", waiter |-> TRUE]
    ELSE [state |-> "NOTIFIED", waiter |-> wn]

\* mark_dirty, second half: self.notify.notify_one().
MarkDirtyNotify(c) ==
    /\ caller_pc[c] = "notify"
    /\ LET n == notify_one(notify_state, waiter_notified)
       IN /\ notify_state' = n.state
          /\ waiter_notified' = n.waiter
    /\ caller_pc' = [caller_pc EXCEPT ![c] = "idle"]
    /\ UNCHANGED <<elsewhere, enabled, dirty, pc, calls_made, budget, store_orders,
                   last_snapshot_hash, locals, inflight, h>>

\* ------------------------------------------------------- the run loop
\* The history after a wake-up of the loop.
WakeHistory(cause) ==
    [h EXCEPT !.woke_by = cause, !.dirty_at_wake = dirty, !.stored_since_wake = FALSE]

\* The history when the loop comes back to select!: what is recorded about
\* the iteration that has just ended is dropped.
SelectHistory == [h EXCEPT !.woke_by = "none", !.swapped = "none", !.status = 0]

\* select!, first poll (interval_secs > 0, so the sleep is pending): the
\* notified() future takes a stored permit and completes, or registers as
\* the waiter and the task parks.
PollSelect ==
    /\ pc = "select"
    /\ IF notify_state = "NOTIFIED"
       THEN /\ notify_state' = "EMPTY"
            /\ pc' = "woken"
            /\ h' = [WakeHistory("notify") EXCEPT !.swapped = "none", !.status = 0]
            /\ UNCHANGED waiter_notified
       ELSE /\ notify_state' = "WAITING"
            /\ waiter_notified' = FALSE
            /\ pc' = "parked"
            /\ h' = SelectHistory
    /\ UNCHANGED <<elsewhere, enabled, dirty, callers, last_snapshot_hash, locals, inflight>>

\* select!: the notified() branch completes.
WakeNotified ==
    /\ pc = "parked"
    /\ waiter_notified
    /\ waiter_notified' = FALSE
    /\ pc' = "woken"
    /\ h' = WakeHistory("notify")
    /\ UNCHANGED <<elsewhere, enabled, dirty, notify_state, callers, last_snapshot_hash, locals,
                   inflight>>

\* select!: the sleep branch completes and the notified() future is dropped.
\* A dropped future that had been handed a notification passes it on, which
\* with no other waiter stores it as the permit; otherwise it leaves the
\* wait list.
WakeTimer ==
    /\ pc = "parked"
    /\ notify_state' = IF waiter_notified THEN "NOTIFIED" ELSE "EMPTY"
    /\ waiter_notified' = FALSE
    /\ pc' = "woken"
    /\ h' = WakeHistory("timer")
    /\ UNCHANGED <<elsewhere, enabled, dirty, callers, last_snapshot_hash, locals, inflight>>

\* A loop that reads the flag with load() and leaves it set.
dirty_after_swap_load == dirty

\* self.dirty.swap(false, AcqRel): the value the flag holds afterwards.
dirty_after_swap == FALSE

\* A loop that submits on every wake-up.
should_submit_always(was_dirty) == TRUE

\* `if !swap(..) { continue; }`: whether the loop goes on to submit_snapshot.
should_submit(was_dirty) == was_dirty

\* The read-and-clear of the dirty flag and the branch on its result.
\* (The guard on h.unserved keeps the history finite; the program never
\* reaches it, see C1_OneCyclePerBatch.)
SwapDirty ==
    /\ pc = "woken"
    /\ h.unserved >= -1
    /\ dirty' = dirty_after_swap
    /\ IF should_submit(dirty)
       THEN /\ pc' = "capture"
            /\ h' = [h EXCEPT !.cycles = IF @ = "none" THEN "one" ELSE "more",
                              !.unserved = @ - 1,
                              !.stored_since_swap = FALSE,
                              !.woke_by = "none",
                              !.dirty_at_wake = FALSE,
                              !.stored_since_wake = FALSE,
                              !.took_fresh = h.stored_since_wake,
                              !.swapped = IF dirty THEN "true" ELSE "false",
                              !.post_owed = IF dirty THEN TRUE ELSE @,
                              !.cycle = "running",
                              !.cursor_before = last_snapshot_hash,
                              !.stored_since_failure = FALSE]
       ELSE /\ pc' = "select"
            /\ h' = [h EXCEPT !.stored_since_swap = FALSE,
                              !.dirty_at_wake = FALSE,
                              !.stored_since_wake = FALSE,
                              !.took_fresh = FALSE,
                              !.swapped = IF dirty THEN "true" ELSE "false",
                              !.post_owed = IF dirty THEN TRUE ELSE @]
    /\ UNCHANGED <<elsewhere, enabled, notify_state, waiter_notified, callers, last_snapshot_hash,
                   locals, inflight>>

\* A loop that propagates the error (`self.submit_snapshot().await?`) and ends.
pc_after_submit_err_exit == "stopped"

\* `if let Err(e) = self.submit_snapshot().await { error!(..) }`: where the
\* loop goes after an Err.
pc_after_submit_err == "select"

\* An Err branch that sets the flag again to have the cycle retried.
dirty_after_submit_err_retry == TRUE

\* The Err branch only logs: the dirty flag afterwards.
dirty_after_submit_err == dirty

\* An Err branch that starts the chain anew from the genesis cursor.
cursor_after_submit_err_genesis == GenesisHash

\* submit_snapshot returned before `self.last_snapshot_hash = hash`: the
\* cursor after an Err.
cursor_after_submit_err == last_snapshot_hash

\* submit_snapshot returns Err through one of its `?` and the loop logs it.
SubmitErr(hist) ==
    /\ pc' = pc_after_submit_err
    /\ dirty' = dirty_after_submit_err
    /\ h' = [hist EXCEPT !.cycle = "err", !.stored_since_failure = FALSE,
                         !.post_owed = FALSE]
    /\ last_snapshot_hash' = cursor_after_submit_err
    /\ hive_state' = <<>>
    /\ sc_binary' = <<>>
    /\ signed' = <<>>
    /\ UNCHANGED <<elsewhere, enabled, notify_state, waiter_notified, callers>>

\* snapshot::capture_state(&self.store, ..)?  The store accessors can fail.
CaptureState ==
    /\ pc = "capture"
    /\ LET hist == [h EXCEPT !.uncaptured = FALSE]
       IN \E ok \in BOOLEAN, t \in Timestamps :
            IF ok
            THEN /\ hive_state' = <<capture_state(store_orders, t)>>
                 /\ pc' = "build"
                 /\ h' = hist
                 /\ UNCHANGED <<elsewhere, enabled, shared, callers, last_snapshot_hash, sc_binary,
                                signed, inflight>>
            ELSE /\ SubmitErr(hist)
                 /\ UNCHANGED inflight

\* An envelope that always points at the genesis cursor.
envelope_cursor_genesis == GenesisHash

\* `&self.last_snapshot_hash`, the cursor the envelope is built with.
envelope_cursor == last_snapshot_hash

\* hive_state.to_state_channel_binary(&self.last_snapshot_hash)?
BuildBinary ==
    /\ pc = "build"
    /\ \E ok \in BOOLEAN :
         IF ok
         THEN /\ sc_binary' = <<to_state_channel_binary(hive_state[1], envelope_cursor)>>
              /\ pc' = "sign"
              /\ UNCHANGED <<elsewhere, enabled, shared, callers, last_snapshot_hash, hive_state,
                             signed, inflight, h>>
         ELSE /\ SubmitErr(h)
              /\ UNCHANGED inflight

\* self.identity.sign_value(&sc_binary)?
SignValue ==
    /\ pc = "sign"
    /\ \E ok \in BOOLEAN :
         IF ok
         THEN /\ signed' = <<sign_value(identity, sc_binary[1])>>
              /\ pc' = "post"
              /\ UNCHANGED <<elsewhere, enabled, shared, callers, last_snapshot_hash, hive_state,
                             sc_binary, inflight, h>>
         ELSE /\ SubmitErr(h)
              /\ UNCHANGED inflight

\* A loop that does not await the POST and goes back to select!.
pc_after_send_detached == "select"

\* Where submit_snapshot is after `.send()` of the POST: it awaits the answer.
pc_after_send == "await"

\* submit_state_channel_snapshot: the POST of the signed envelope is sent.
SendPost ==
    /\ pc = "post"
    /\ inflight' = Append(inflight, signed[1])
    /\ pc' = pc_after_send
    /\ h' = [h EXCEPT !.post_owed = FALSE]
    /\ UNCHANGED <<elsewhere, enabled, shared, callers, last_snapshot_hash, locals>>

\* `.send().await.context(..)?`: the node is unreachable, no answer arrives.
PostUnreachable ==
    /\ pc = "await"
    /\ inflight # <<>>
    /\ inflight' = Tail(inflight)
    /\ SubmitErr(h)

\* The node answers the POST: Ok(()) on a success status, bail! otherwise.
PostAnswered ==
    /\ pc = "await"
    /\ inflight # <<>>
    /\ inflight' = Tail(inflight)
    /\ \E status \in HttpStatuses :
         LET hist == [h EXCEPT !.status = status]
         IN IF is_success(status)
            THEN /\ pc' = "hash"
                 /\ h' = hist
                 /\ UNCHANGED <<elsewhere, enabled, shared, callers, last_snapshot_hash, locals>>
            ELSE SubmitErr(hist)

\* A cursor computed from the business snapshot instead of the envelope value.
new_cursor_of_hive_state == Sha256Hex(JsonInts(to_bytes(hive_state[1])))

\* `NodeIdentity::hash_value(&sc_binary)?`: the value the new cursor is
\* computed from.  (The same call succeeded inside sign_value.)
new_cursor == hash_value(sc_binary[1])

\* self.last_snapshot_hash = hash; Ok(())
UpdateCursor ==
    /\ pc = "hash"
    /\ last_snapshot_hash' = new_cursor
    /\ pc' = "select"
    /\ h' = [h EXCEPT !.cycle = "ok", !.accepted = Append(@, sc_binary[1])]
    /\ hive_state' = <<>>
    /\ sc_binary' = <<>>
    /\ signed' = <<>>
    /\ UNCHANGED <<elsewhere, enabled, shared, callers, inflight>>

\* The steps of the loop other than the expiry of the timer.
LoopStep ==
    \/ PollSelect
    \/ WakeNotified
    \/ SwapDirty
    \/ CaptureState
    \/ BuildBinary
    \/ SignValue
    \/ SendPost
    \/ PostUnreachable
    \/ PostAnswered
    \/ UpdateCursor

Next ==
    \/ \E c \in Callers : HandleMessage(c)
    \/ \E c \in Callers : MarkDirtyStore(c)
    \/ \E c \in Callers : MarkDirtyNotify(c)
    \/ PollSelect
    \/ WakeNotified
    \/ WakeTimer
    \/ SwapDirty
    \/ CaptureState
    \/ BuildBinary
    \/ SignValue
    \/ SendPost
    \/ PostUnreachable
    \/ PostAnswered
    \/ UpdateCursor

Spec == Init /\ [][Next]_vars

\* The same program with the scheduling its runtime gives: a handler that
\* entered mark_dirty finishes it, and the loop task takes its next step
\* whenever one is ready (every capture and network call returns).  Nothing
\* is assumed about the timer.
InitLive == InitWith(MaxLiveCalls)

FairSpec ==
    /\ InitLive
    /\ [][Next]_vars
    /\ WF_vars(LoopStep)
    /\ \A c \in Callers : WF_vars(MarkDirtyStore(c) \/ MarkDirtyNotify(c))

\* --------------------------------------------- the message-handling layer
\* The messages the model receives: a text from either sender, a location
\* pin, a message with neither text nor location, a group message and an
\* echo of the bot's own message.
Message(sender, text, is_from_me, is_group, has_location) ==
    [sender |-> sender, text |-> text, is_from_me |-> is_from_me,
     is_group |-> is_group, has_location |-> has_location]

Messages ==
    {Message(s, t, FALSE, FALSE, FALSE) : s \in Senders, t \in Texts}
    \cup {Message(s, "", FALSE, FALSE, TRUE) : s \in Senders}
    \cup {Message(s, "1", FALSE, TRUE, FALSE) : s \in Senders}
    \cup {Message(s, "1", TRUE, FALSE, FALSE) : s \in Senders}

\* Event::Message, first half: handle_incoming_message runs on one message.
HandleIncomingMessage(c) ==
    /\ caller_pc[c] = "idle"
    /\ \E msg \in Messages, code \in VoucherCodes, fault \in Faults :
         \E out \in {handle_incoming_message(msg, conversation[msg.sender], db, code, fault)} :
            /\ Len(out.db.orders) <= MaxOrders
            /\ conversation' = [conversation EXCEPT ![msg.sender] = out.state]
            /\ db' = out.db
            /\ handled' = [handled EXCEPT ![c] =
                             [msg |-> msg, ret |-> out.ret, reply |-> out.reply,
                              wrote |-> out.db # db]]
    /\ caller_pc' = [caller_pc EXCEPT ![c] = "returned"]
    /\ UNCHANGED <<enabled, shared, pc, calls_made, budget, store_orders,
                   last_snapshot_hash, locals, inflight, h, booting, redeeming>>

\* Event::Message, second half: the match on what handle_incoming_message
\* returned; Ok(true) goes on to network_notifier.mark_dirty(), Ok(false)
\* does nothing and Err is logged.
EventMessage(c) ==
    /\ caller_pc[c] = "returned"
    /\ caller_pc' = [caller_pc EXCEPT ![c] = IF handled[c].ret = "Ok(true)"
                                             THEN "changed" ELSE "idle"]
    /\ handled' = [handled EXCEPT ![c] = NotHandled]
    /\ UNCHANGED <<enabled, shared, pc, calls_made, budget, store_orders,
                   last_snapshot_hash, locals, inflight, h, conversation, db, booting,
                   redeeming>>

\* The bot's event task: its messages are handled one after the other.
EventTask == 1

MsgNext ==
    \/ HandleIncomingMessage(EventTask)
    \/ EventMessage(EventTask)
    \/ MarkDirtyStore(EventTask)
    \/ MarkDirtyNotify(EventTask)

\* BotEngine::new with config.network.enabled set.
MsgInit == InitWith(0) /\ enabled

\* The message-handling layer alone, with the notifier BotEngine::new built.
MsgSpec == MsgInit /\ [][MsgNext]_vars

\* ------------------------------------------- start-up and the node identity
\* Values the service signs: state channel envelopes.
SignedValues == {from_unsigned(GenesisHash, content) : content \in {<<>>, <<1>>, <<200, 7>>}}

\* Byte arrays derive_address is applied to: the public keys of the model's
\* secret keys and the others.
Pubkeys == {serialize_uncompressed(k) : k \in {Key42, KeySeq}} \cup OtherPubkeys

\* What start-up and the NodeIdentity functions leave alone.
running == <<enabled, shared, callers, last_snapshot_hash, locals, inflight, h,
            messaging, redeeming>>

\* BotEngine::new: with network.enabled, NetworkService::new loads or
\* generates the identity at the identity path and asks the node for its
\* cluster info; on Ok the service is spawned.
BotEngineNew ==
    /\ engine = NoEngine
    /\ IF enabled
       THEN \E secret \in DrawnKeys(files[IdentityPath]),
               fault \in IoFaultsOn(files[IdentityPath]) :
              \E out \in {load_or_generate(files[IdentityPath], secret, fault)} :
                 /\ files' = [files EXCEPT ![IdentityPath] = out.contents]
                 /\ call' = [op |-> "load_or_generate", path |-> IdentityPath,
                             ret |-> out.ret, fault |-> fault, drew |-> out.drew]
                 /\ origin' = IF out.drew /\ out.ret.ok THEN <<out.ret.val>> ELSE origin
                 /\ \E cluster \in ClusterInfo :
                      engine' = BotEngine_new_enabled(out.ret, cluster)
                 /\ pc' = IF engine'.spawned THEN "select" ELSE "none"
       ELSE /\ engine' = BotEngine_new_disabled
            /\ UNCHANGED <<files, call, origin, pc>>
    /\ UNCHANGED running

\* NodeIdentity::load_or_generate on the identity path.
LoadOrGenerate ==
    /\ \E secret \in DrawnKeys(files[IdentityPath]),
          fault \in IoFaultsOn(files[IdentityPath]) :
         \E out \in {load_or_generate(files[IdentityPath], secret, fault)} :
            /\ files' = [files EXCEPT ![IdentityPath] = out.contents]
            /\ call' = [op |-> "load_or_generate", path |-> IdentityPath,
                        ret |-> out.ret, fault |-> fault, drew |-> out.drew]
            /\ origin' = IF out.drew /\ out.ret.ok THEN <<out.ret.val>> ELSE origin
    /\ UNCHANGED <<running, pc, engine>>

\* NodeIdentity::load.  The call record keeps the identity whose save to
\* the same path was the call before this one, if that is what it was.
Load(path) ==
    /\ \E fault \in {"none", "read_to_string"} :
         call' = [op |-> "load", path |-> path, ret |-> load(files[path], fault),
                  fault |-> fault,
                  saved |-> IF call.op = "save" /\ call.path = path /\ call.ret.ok
                            THEN <<call.self>> ELSE <<>>]
    /\ UNCHANGED <<running, pc, engine, files, origin>>

\* NodeIdentity::save, to the temporary file.
Save(self) ==
    /\ \E fault \in IoFaults \ {"read_to_string"} :
         \E out \in {save(self, files[TempPath], fault)} :
            /\ files' = [files EXCEPT ![TempPath] = out.contents]
            /\ call' = [op |-> "save", path |-> TempPath, self |-> self,
                        ret |-> out.ret, fault |-> fault]
    /\ UNCHANGED <<running, pc, engine, origin>>

\* NodeIdentity::sign_value
SignValueAs(self, value) ==
    /\ call' = [op |-> "sign_value", self |-> self, value |-> value,
                ret |-> sign_value(self, value)]
    /\ UNCHANGED <<running, pc, engine, files, origin>>

\* NodeIdentity::derive_address
DeriveAddress(uncompressed_pubkey) ==
    /\ call' = [op |-> "derive_address", pubkey |-> uncompressed_pubkey,
                ret |-> derive_address(uncompressed_pubkey)]
    /\ UNCHANGED <<running, pc, engine, files, origin>>

IdNext ==
    \/ BotEngineNew
    \/ LoadOrGenerate
    \/ \E path \in Paths : Load(path)
    \/ \E self \in Identities : Save(self)
    \/ \E self \in Identities, value \in SignedValues : SignValueAs(self, value)
    \/ \E uncompressed_pubkey \in Pubkeys : DeriveAddress(uncompressed_pubkey)

\* Before BotEngine::new, with network.enabled set in the configuration: no
\* service, no notifier; the identity path holds whatever earlier runs left
\* there, and the temporary file is new and empty.
IdInit ==
    /\ enabled = TRUE
    /\ dirty = FALSE
    /\ notify_state = "EMPTY"
    /\ waiter_notified = FALSE
    /\ pc = "none"
    /\ caller_pc = [c \in Callers |-> "idle"]
    /\ calls_made = 0
    /\ budget = 0
    /\ store_orders = 0
    /\ last_snapshot_hash = GenesisHash
    /\ hive_state = <<>>
    /\ sc_binary = <<>>
    /\ signed = <<>>
    /\ inflight = <<>>
    /\ h = InitHistory
    /\ conversation = [s \in Senders |-> Idle]
    /\ db = NoTables
    /\ handled = [c \in Callers |-> NotHandled]
    /\ files \in {[p \in Paths |-> IF p = IdentityPath THEN f ELSE NotJson] : f \in InitialFiles}
    /\ call = NoCall
    /\ engine = NoEngine
    /\ origin = <<>>
    /\ conn = NoTask
    /\ vouchers = [c \in StoredCodes |-> NoRow]
    /\ redeem = [t \in Redeemers |-> NotCalled]

\* Start-up and the identity functions alone.
IdSpec == IdInit /\ [][IdNext]_vars

\* ------------------------------------------ the codec and the client calls
\* HiveStateSnapshots the codec is applied to: clock values and counters at
\* the edges of the MessagePack integer forms, revenues of either sign, an
\* empty and a non-empty business name, and no, one and two order hashes in
\* both orders.
Snapshot(name, t, revenue, hashes) ==
    [version |-> 1,
     business_name |-> name,
     timestamp_ms |-> t,
     total_orders |-> Len(hashes),
     total_revenue_cents |-> revenue,
     active_orders |-> 0,
     delivered_orders |-> Len(hashes),
     vouchers |-> [total_created |-> 10, total_redeemed |-> 5,
                   total_value_created_cents |-> t,
                   total_value_redeemed_cents |-> revenue],
     order_hashes |-> hashes]

Snapshots ==
    {Snapshot(BusinessName, t, revenue, <<OrderFingerprint(1)>>) :
        t \in {0, 127, 128, 255, 256, 65535, 65536},
        revenue \in {-129, -128, -33, -32, -1, 0, 3500}}
    \cup
    {Snapshot(name, 0, 0, hashes) :
        name \in {<<>>, BusinessName},
        hashes \in {<<>>, <<OrderFingerprint(1)>>,
                    <<OrderFingerprint(1), OrderFingerprint(2)>>,
                    <<OrderFingerprint(2), OrderFingerprint(1)>>}}

\* Byte strings from_unsigned is applied to: all of length up to two over
\* bytes at the edges of the signed range.
ContentBytes == {0, 1, 127, 128, 129, 255}
Contents == {<<>>} \cup {<<b>> : b \in ContentBytes}
                   \cup {<<b, c>> : b \in ContentBytes, c \in ContentBytes}

\* Strings passed as last_snapshot_hash: the genesis cursor, a digest, the
\* string of test_state_channel_binary, the empty string, and strings with
\* blanks and upper-case letters.
HashStrings == {GenesisHash, Sha256Hex("x"), "previous_hash_here", "", " 00AB ", "ABCDEF"}

\* What the node may answer to GET /global-snapshots/app-data/{id}: a status
\* and a body that is a DeployAppInfo in JSON, other JSON, or no JSON; or
\* no answer at all (send() fails).
AppDataStatuses == {200, 204, 301, 400, 404, 500, 503}
AppDataBodies == {"DeployAppInfo", "other json", "not json"}
AppDataResponses ==
    {Err("send")} \cup {Ok([status |-> s, body |-> b]) : s \in AppDataStatuses, b \in AppDataBodies}

\* resp.json::<DeployAppInfo>()
json_DeployAppInfo(body) ==
    IF body = "DeployAppInfo" THEN Ok("DeployAppInfo") ELSE Err("Failed to parse app data")

\* RealityClient::get_app_data, from the answer to its GET: Ok(None),
\* Ok(Some(info)) or Err.
get_app_data(resp) ==
    IF ~resp.ok THEN Err("send")
    ELSE IF resp.val.status = 404 THEN Ok(<<>>)
    ELSE LET info == json_DeployAppInfo(resp.val.body)
         IN  IF ~info.ok THEN info ELSE Ok(<<info.val>>)

\* HiveStateSnapshot::to_bytes
ToBytes(s) ==
    /\ call' = [op |-> "to_bytes", self |-> s, ret |-> to_bytes(s)]
    /\ UNCHANGED <<running, pc, engine, files, origin>>

\* HiveStateSnapshot::from_bytes on what to_bytes has just returned, whole
\* or cut short by one byte.  The call record keeps the snapshot the bytes
\* are the encoding of.
FromBytes ==
    /\ call.op = "to_bytes"
    /\ \/ call' = [op |-> "from_bytes", bytes |-> call.ret, ret |-> from_bytes(call.ret),
                   of |-> <<call.self>>]
       \/ call' = [op |-> "from_bytes", bytes |-> SubSeq(call.ret, 1, Len(call.ret) - 1),
                   ret |-> from_bytes(SubSeq(call.ret, 1, Len(call.ret) - 1)),
                   of |-> <<>>]
    /\ UNCHANGED <<running, pc, engine, files, origin>>

\* StateChannelSnapshotBinary::from_unsigned
FromUnsigned(hash, content) ==
    /\ call' = [op |-> "from_unsigned", hash |-> hash, content |-> content,
                ret |-> from_unsigned(hash, content)]
    /\ UNCHANGED <<running, pc, engine, files, origin>>

\* StateChannelSnapshotBinary::content_unsigned on what from_unsigned has
\* just returned.  The call record keeps the bytes it was made from.
ContentUnsigned ==
    /\ call.op = "from_unsigned"
    /\ call' = [op |-> "content_unsigned", self |-> call.ret,
                ret |-> content_unsigned(call.ret), of |-> call.content]
    /\ UNCHANGED <<running, pc, engine, files, origin>>

\* HiveStateSnapshot::to_state_channel_binary
ToStateChannelBinary(s, hash) ==
    /\ call' = [op |-> "to_state_channel_binary", self |-> s, hash |-> hash,
                ret |-> to_state_channel_binary(s, hash)]
    /\ UNCHANGED <<running, pc, engine, files, origin>>

\* RealityClient::get_app_data
GetAppData(resp) ==
    /\ call' = [op |-> "get_app_data", resp |-> resp, ret |-> get_app_data(resp)]
    /\ UNCHANGED <<running, pc, engine, files, origin>>

CodecNext ==
    \/ \E s \in Snapshots : ToBytes(s)
    \/ FromBytes
    \/ \E hash \in HashStrings, content \in Contents : FromUnsigned(hash, content)
    \/ ContentUnsigned
    \/ \E s \in Snapshots, hash \in HashStrings : ToStateChannelBinary(s, hash)
    \/ \E resp \in AppDataResponses : GetAppData(resp)

CodecInit == InitWith(0) /\ enabled

\* The codec and the client calls alone.
CodecSpec == CodecInit /\ [][CodecNext]_vars

\* ------------------------------------------------ the voucher redemptions
\* `self.conn.lock()` with the guard never given out while another task
\* holds it.
Mutex_lock_unguarded(holder) == TRUE

\* `self.conn.lock()`: the guard is given out when no task holds it.
Mutex_lock(holder) == holder = NoTask

\* What the vouchers actions leave alone.
outside_store == <<enabled, shared, pc, callers, last_snapshot_hash, locals, inflight, h,
                   messaging, booting>>

\* The statements of the store that can fail with a rusqlite error.
StatementFaults == {"none", "error"}

\* Store::create_voucher: lock, INSERT, unlock. The INSERT fails on a code
\* the table already has (code is UNIQUE) and on a statement error.
CreateVoucher(code, amount, fault) ==
    /\ Mutex_lock(conn)
    /\ vouchers' = IF fault = "none" /\ vouchers[code] = NoRow
                   THEN [vouchers EXCEPT ![code] = NewVoucher(amount)]
                   ELSE vouchers
    /\ UNCHANGED <<conn, redeem, outside_store>>

\* Store::redeem_voucher, `let conn = self.conn.lock().unwrap()`: the call
\* starts and waits for the guard.
RedeemLock(t, code, redeemed_by) ==
    /\ redeem[t].pc = "idle"
    /\ Mutex_lock(conn)
    /\ conn' = t
    /\ redeem' = [redeem EXCEPT ![t] = [NotCalled EXCEPT !.pc = "select", !.code = code,
                                                           !.redeemed_by = redeemed_by]]
    /\ UNCHANGED <<vouchers, outside_store>>

\* Store::redeem_voucher, the SELECT of the amount of the row with this code
\* whose redeemed_by IS NULL: `prepare(..)?` and `query_map(..)?` return the
\* error, `.next().and_then(|r| r.ok())` is None without such a row; on None
\* the call returns Ok(None) and the guard is dropped.
RedeemSelect(t, fault) ==
    /\ redeem[t].pc = "select"
    /\ LET row == vouchers[redeem[t].code]
           amount == IF row.redeemed_by = "NULL" THEN <<row.amount>> ELSE <<>>
       IN IF fault = "error"
          THEN /\ redeem' = [redeem EXCEPT ![t].pc = "returned", ![t].ret = Err("rusqlite")]
               /\ conn' = NoTask
          ELSE IF amount = <<>>
          THEN /\ redeem' = [redeem EXCEPT ![t].pc = "returned", ![t].ret = Ok(<<>>)]
               /\ conn' = NoTask
          ELSE /\ redeem' = [redeem EXCEPT ![t].pc = "update", ![t].amount = amount]
               /\ UNCHANGED conn
    /\ UNCHANGED <<vouchers, outside_store>>

\* Store::redeem_voucher, the UPDATE of every row with this code (it has no
\* condition on redeemed_by): `execute(..)?` returns the error, otherwise
\* the call returns Ok(Some(amount)); either way the guard is dropped.
RedeemUpdate(t, fault) ==
    /\ redeem[t].pc = "update"
    /\ IF fault = "error"
       THEN /\ redeem' = [redeem EXCEPT ![t].pc = "returned", ![t].ret = Err("rusqlite")]
            /\ UNCHANGED vouchers
       ELSE /\ vouchers' = IF vouchers[redeem[t].code] = NoRow
                           THEN vouchers
                           ELSE [vouchers EXCEPT ![redeem[t].code].redeemed_by =
                                                    redeem[t].redeemed_by]
            /\ redeem' = [redeem EXCEPT ![t].pc = "returned", ![t].ret = Ok(redeem[t].amount)]
    /\ conn' = NoTask
    /\ UNCHANGED outside_store

VoucherNext ==
    \/ \E code \in StoredCodes, amount \in VoucherAmounts, fault \in StatementFaults :
          CreateVoucher(code, amount, fault)
    \/ \E t \in Redeemers, code \in StoredCodes, redeemed_by \in Senders :
          RedeemLock(t, code, redeemed_by)
    \/ \E t \in Redeemers, fault \in StatementFaults : RedeemSelect(t, fault)
    \/ \E t \in Redeemers, fault \in StatementFaults : RedeemUpdate(t, fault)

\* A store just opened by Store::new.
VoucherInit == InitWith(0) /\ enabled

\* The calls of redeem_voucher and create_voucher on one store.
VoucherSpec == VoucherInit /\ [][VoucherNext]_vars




\* ======================================================================
\* Properties
\* ======================================================================

\* Every handler task is outside mark_dirty and the loop is parked with
\* nothing pending.
Quiescent ==
    /\ \A c \in Callers : caller_pc[c] = "idle"
    /\ pc = "parked"
    /\ notify_state = "WAITING"
    /\ ~waiter_notified
    /\ ~dirty
    /\ inflight = <<>>

\* C1 as stated: the mark_dirty calls made between two consecutive wake-ups
\* of the run loop result in exactly one submission cycle.  No cycle starts
\* on a store made before the wake-up that began it when the cycle before
\* took a store made after the wake-up before that: the two stores lie
\* between the same two consecutive wake-ups and are served by two cycles.
C1_OneCyclePerWakeInterval ==
    [][(pc = "woken" /\ pc' = "capture") => ~(h.took_fresh /\ h.dirty_at_wake)]_vars

\* C1, amended: the mark_dirty calls made between two consecutive
\* read-and-clear operations of the run loop result in exactly one
\* submission cycle.  The batches of mark_dirty stores (stores with no
\* read-and-clear between them) begun so far are as many as the cycles
\* started, plus the one batch still waiting while the flag is set; so five
\* calls while the loop is idle give one submit_snapshot, not five.
C1_OneCyclePerBatch ==
    h.unserved = (IF dirty THEN 1 ELSE 0)

\* Five mark_dirty calls, all before the first read-and-clear, have been
\* served by one submit_snapshot and nothing more is pending.
C1_Witness ==
    /\ enabled = TRUE
    /\ calls_made >= 5
    /\ h.cycles = "one"
    /\ h.cycle = "ok"
    /\ Quiescent


\* The positions of the loop inside submit_snapshot.
Submitting == {"capture", "build", "sign", "post", "await", "hash"}

\* The loop has come back from an iteration and has not polled select! yet.
JustSwapped(result) == pc = "select" /\ h.swapped = result

\* C2: the run loop starts a submission only when its read-and-clear of the
\* dirty flag returned true; a wake-up (by the timer or by a leftover wake
\* signal) that finds the flag false captures nothing, signs nothing, posts
\* nothing and goes back to waiting.
C2_SubmitOnlyWhenDirty ==
    /\ pc \in Submitting => h.swapped = "true"
    /\ h.swapped = "false" =>
         /\ pc = "select"
         /\ hive_state = <<>> /\ sc_binary = <<>> /\ signed = <<>>
         /\ inflight = <<>>
         /\ h.cycle # "running"

\* After a cycle, a leftover wake signal has woken the loop, the flag was
\* false, and the loop is back at select! with nothing submitted.
C2_Witness ==
    /\ JustSwapped("false")
    /\ h.woke_by = "notify"
    /\ h.cycles = "one"

\* C3: at most one submission is in flight: a POST is outstanding only while
\* the loop awaits it, there is never more than one, and the loop is at no
\* other position of submit_snapshot or of its wait while one is outstanding.
C3_OneInFlight ==
    /\ enabled => pc \in {"select", "parked", "woken"} \cup Submitting
    /\ Len(inflight) = (IF pc = "await" THEN 1 ELSE 0)

\* A POST is in flight while mark_dirty calls have set the flag and stored
\* a permit.
C3_Witness ==
    /\ pc = "await"
    /\ Len(inflight) = 1
    /\ dirty
    /\ notify_state = "NOTIFIED"

\* C4: of two consecutive successful submissions the later envelope's
\* lastSnapshotHash is hash_value of the earlier envelope value.
C4_ChainContinuity ==
    \A i \in 1 .. Len(h.accepted) - 1 :
        h.accepted[i + 1].last_snapshot_hash = hash_value(h.accepted[i])

\* Three submissions have succeeded.
C4_Witness ==
    /\ Len(h.accepted) >= 3
    /\ h.cycle = "ok"

\* A status of the 2xx range.
Is2xx(status) == status \in 200 .. 299

\* C5: a failed cycle leaves the chain cursor as it was before the cycle,
\* and a cycle whose POST got no answer or an answer outside 2xx is a failed
\* cycle.
C5_FailureKeepsCursor ==
    /\ h.cycle \in {"running", "err"} => last_snapshot_hash = h.cursor_before
    /\ (JustSwapped("true") /\ ~Is2xx(h.status)) => h.cycle = "err"

\* A cycle has just failed on a 300 answer, after an earlier success, and
\* the cursor is the one the earlier success left.
C5_Witness ==
    /\ JustSwapped("true")
    /\ h.cycle = "err"
    /\ h.status = 300
    /\ h.accepted # <<>>
    /\ last_snapshot_hash = hash_value(h.accepted[Len(h.accepted)])

\* C6: an error in a submission cycle does not stop the loop: while the
\* latest cycle is a failed one the loop is at its wait (at select!, parked
\* or just woken), and a mark_dirty made after a failure leads to a new call
\* of submit_snapshot.
C6_LoopSurvivesFailure ==
    /\ [](h.cycle = "err" => pc \in {"select", "parked", "woken"})
    /\ ((h.cycle = "err" /\ h.stored_since_failure) ~> (h.cycle = "running"))

\* A second cycle is running though no cycle has succeeded yet.
C6_Witness ==
    /\ h.cycles = "more"
    /\ h.accepted = <<>>
    /\ h.cycle = "running"

\* C7 as stated: after a failed cycle no further submission attempt is made
\* unless a mark_dirty call followed the failure.
C7_NoAttemptWithoutCallAfterFailure ==
    [][(pc = "woken" /\ pc' = "capture" /\ h.cycle = "err")
          => h.stored_since_failure]_vars

\* C7, amended: a failed submission does not set the dirty flag again: no
\* submission attempt is made unless a mark_dirty call followed the
\* read-and-clear of the cycle before (of the failed cycle, when that cycle
\* failed), however many periodic wake-ups occur.
C7_NoAttemptWithoutCallAfterSwap ==
    [][(pc = "woken" /\ pc' = "capture") => h.stored_since_swap]_vars

\* After a failed cycle and no further mark_dirty, the timer has woken the
\* loop, the flag was false, and no attempt was made.
C7_Witness ==
    /\ h.cycle = "err"
    /\ JustSwapped("false")
    /\ h.woke_by = "timer"
    /\ ~h.stored_since_failure

\* C8: every mark_dirty call on an enabled notifier is followed by a
\* submission cycle whose capture_state call comes after the call's store.
C8_EveryCallCaptured == h.uncaptured ~> ~h.uncaptured

\* A mark_dirty store arrived while a POST is in flight.
C8_Witness ==
    /\ pc = "await"
    /\ h.uncaptured
    /\ \E c \in Callers : caller_pc[c] = "notify"

\* C9: mark_dirty on a disabled notifier changes neither the dirty flag nor
\* the wake signal, and no submission results from it.
C9_DisabledIsNoOp ==
    ~enabled =>
        /\ ~dirty
        /\ notify_state = "EMPTY"
        /\ ~waiter_notified
        /\ pc = "none"
        /\ h.cycles = "none"
        /\ inflight = <<>>

\* Two handlers have gone through mark_dirty on a disabled notifier.
C9_Witness ==
    /\ ~enabled
    /\ calls_made >= 2
    /\ \A c \in Callers : caller_pc[c] = "idle"

\* A string of n zeros.
RECURSIVE ZeroHex(_)
ZeroHex(n) == IF n = 0 THEN "" ELSE "0" \o ZeroHex(n - 1)

\* The first envelope of the chain points at the string z: every envelope
\* built or sent before a submission has succeeded carries z, and so does
\* the first envelope accepted.
FirstEnvelopePointsAt(z) ==
    /\ (h.accepted = <<>> /\ sc_binary # <<>>) => sc_binary[1].last_snapshot_hash = z
    /\ (h.accepted = <<>> /\ inflight # <<>>) =>
           inflight[1].value.last_snapshot_hash = z
    /\ h.accepted # <<>> => h.accepted[1].last_snapshot_hash = z

\* C10 as stated: the genesis cursor, the lastSnapshotHash of the first
\* envelope a new service submits, is a string of 68 zeros.
C10_GenesisIs68Zeros == FirstEnvelopePointsAt(ZeroHex(68))

\* C10, amended: the genesis cursor, the lastSnapshotHash of the first
\* envelope a new service submits, is a string of 64 zeros.
C10_GenesisIs64Zeros == FirstEnvelopePointsAt(ZeroHex(64))

\* The first envelope of a new service has been accepted.
C10_Witness ==
    /\ Len(h.accepted) = 1
    /\ h.cycles = "one"
    /\ h.cycle = "ok"

\* ---------------------------------------------------------------------
\* The message-handling layer (MsgSpec)
\* ---------------------------------------------------------------------

\* C11: whenever handling a message changed the order or voucher tables,
\* the match in Event::Message goes on to mark_dirty for that message,
\* also when handle_incoming_message failed after the change.
C11_MarkDirtyOnEveryChange ==
    [][(caller_pc[EventTask] = "returned" /\ handled[EventTask].wrote)
          => caller_pc'[EventTask] = "changed"]_vars

\* C12: handle_incoming_message returns Ok(true) only for a message that
\* changed the order or voucher tables.
C12_TrueOnlyOnChange ==
    handled[EventTask].ret = "Ok(true)" => handled[EventTask].wrote

\* ---------------------------------------------------------------------
\* Start-up and the node identity (IdSpec)
\* ---------------------------------------------------------------------

\* C13: for every value V and identity I, sign_value(V, I) returns an
\* envelope whose value is V and whose proofs are one proof, with id
\* I.peer_id_hex.
C13_EnvelopeOfOneProof ==
    call.op = "sign_value" =>
        /\ call.ret.value = call.value
        /\ Len(call.ret.proofs) = 1
        /\ call.ret.proofs[1].id = call.self.peer_id_hex

\* The identity of the key 1 .. 32 has signed an envelope of two bytes.
C13_Witness ==
    /\ call.op = "sign_value"
    /\ call.self.secret_key = KeySeq
    /\ Len(call.value.content) = 2

RECURSIVE DigitSumUpTo(_, _)
DigitSumUpTo(text, d) ==
    IF d = 0 THEN 0
    ELSE d * Cardinality({i \in 1 .. Len(text) : text[i] = ToString(d)})
           + DigitSumUpTo(text, d - 1)

\* C16: the 4th character of every derived address is one digit in 0 .. 8,
\* the sum of the decimal digits in the rest of the address (its suffix)
\* modulo 9; the other characters of the suffix count for nothing.
C16_ParityDigit ==
    (call.op = "derive_address" /\ call.ret.ok) =>
        LET address == call.ret.val
            suffix == SubSeq(address, 5, Len(address))
        IN  /\ address[4] \in {"0", "1", "2", "3", "4", "5", "6", "7", "8"}
            /\ address[4] = ToString(DigitSumUpTo(suffix, 9) % 9)

\* derive_address has run on the public key of the key 1 .. 32, whose
\* address NET41zG1KnHM9XiLWv3v5fm1qWAC2W8efQ838yAF has a suffix with
\* digits (sum 49) and letters.
C16_Witness ==
    /\ call.op = "derive_address"
    /\ call.pubkey = serialize_uncompressed(KeySeq)
    /\ call.ret.ok
    /\ DigitSumUpTo(SubSeq(call.ret.val, 5, Len(call.ret.val)), 9) = 49
    /\ call.ret.val[4] = "4"

\* C17: saving an identity and loading it from the same path yields an
\* identity with the same peer id and the same address.
C17_LoadAfterSave ==
    (call.op = "load" /\ call.saved # <<>> /\ call.fault = "none") =>
        /\ call.ret.ok
        /\ call.ret.val.peer_id_hex = call.saved[1].peer_id_hex
        /\ call.ret.val.address = call.saved[1].address

\* The identity of the key 1 .. 32 was saved to the temporary file and the
\* file was then loaded.
C17_Witness ==
    /\ call.op = "load"
    /\ call.path = TempPath
    /\ call.saved # <<>>
    /\ call.saved[1].secret_key = KeySeq
    /\ call.fault = "none"
    /\ call.ret.ok

\* C18: load_or_generate on a path with no file, when it returns an
\* identity, has generated it and left it in a file at that path; every
\* later load_or_generate on the path draws no key, leaves the file as it
\* is and, unless reading the file fails, returns an identity with the
\* peer id and address of the first.
C18_GenerateOnceThenLoad ==
    [][call'.op = "load_or_generate" =>
          /\ (files[IdentityPath] = Absent /\ call'.ret.ok) =>
                /\ call'.drew
                /\ files'[IdentityPath] # Absent
                /\ load(files'[IdentityPath], "none") = call'.ret
          /\ origin # <<>> =>
                /\ ~call'.drew
                /\ files' = files
                /\ call'.fault = "none" => call'.ret.ok
                /\ call'.ret.ok =>
                      /\ call'.ret.val.peer_id_hex = origin[1].peer_id_hex
                      /\ call'.ret.val.address = origin[1].address]_vars

\* A load_or_generate that found no file generated an identity, and a later
\* one has returned it from the file.
C18_Witness ==
    /\ origin # <<>>
    /\ call.op = "load_or_generate"
    /\ ~call.drew
    /\ call.ret.ok
    /\ call.ret.val = origin[1]

\* The text is not the hex of exactly 32 bytes: it has not 64 characters,
\* or one of them is no hex digit.
NotHexOf32Bytes(text) ==
    \/ Len(text) # 64
    \/ \E i \in 1 .. Len(text) :
          text[i] \notin {"0", "1", "2", "3", "4", "5", "6", "7", "8", "9",
                          "a", "b", "c", "d", "e", "f", "A", "B", "C", "D", "E", "F"}

\* C19: loading an identity file whose secret key does not decode to
\* exactly 32 bytes returns an error and no identity, and leaves the file
\* as it was; so when load_or_generate does the loading.
C19_BadKeyIsAnError ==
    [][(/\ \/ call'.op = "load"
           \/ call'.op = "load_or_generate" /\ ~call'.drew
        /\ from_str(files[call'.path]).ok
        /\ NotHexOf32Bytes(from_str(files[call'.path]).val.secret_key))
          => /\ ~call'.ret.ok
             /\ files' = files]_vars

\* A file with a key of 33 bytes was loaded, and load refused it for its
\* length.
C19_Witness ==
    /\ call.op = "load"
    /\ from_str(files[call.path]).ok
    /\ Len(from_str(files[call.path]).val.secret_key) = 66
    /\ ~call.ret.ok
    /\ call.ret.err = "Secret key must be 32 bytes"

\* C20: NetworkService::new fails exactly when load_or_generate fails; then
\* BotEngine::new fails too, there is no service and no notifier, and the
\* run loop is never started.  A cluster that is not reachable at the
\* health check does not make it fail.
C20_InitFailsWithIdentityOnly ==
    /\ [][(engine = NoEngine /\ engine' # NoEngine /\ enabled) =>
             /\ call'.op = "load_or_generate"
             /\ engine'.network = "Err" <=> ~call'.ret.ok
             /\ engine'.network = "Ok" => (engine'.notifier = "enabled" /\ pc' = "select")]_vars
    /\ [](engine.network = "Err" =>
             /\ engine.new = "Err"
             /\ engine.notifier = "none"
             /\ ~engine.spawned
             /\ pc = "none")

\* NetworkService::new has failed on an identity file it could not load;
\* nothing was spawned.
C20_Witness ==
    /\ engine.network = "Err"
    /\ engine.identity = "Err"
    /\ call.op = "load_or_generate"
    /\ ~call.ret.ok
    /\ pc = "none"

\* ---------------------------------------------------------------------
\* The codec and the client calls (CodecSpec)
\* ---------------------------------------------------------------------

\* C21: for every HiveStateSnapshot S, from_bytes(to_bytes(S)) returns a
\* snapshot with every field of S, an empty order_hashes as well as a
\* non-empty one, its elements in the same order.
C21_RoundTrip ==
    (call.op = "from_bytes" /\ call.of # <<>>) =>
        /\ call.ret.ok
        /\ call.ret.val = call.of[1]
        /\ call.ret.val.order_hashes = call.of[1].order_hashes

\* A snapshot with two different order hashes has been encoded and read back.
C21_Witness ==
    /\ call.op = "from_bytes"
    /\ call.of # <<>>
    /\ Len(call.of[1].order_hashes) = 2
    /\ call.of[1].order_hashes[1] # call.of[1].order_hashes[2]
    /\ call.ret.ok

\* C22: from_unsigned maps every byte b to b when b < 128 and to b - 256
\* otherwise, so every element of content lies in -128 .. 127, and
\* content_unsigned gives back the bytes from_unsigned was applied to.
C22_SignedBytes ==
    /\ call.op = "from_unsigned" =>
          /\ Len(call.ret.content) = Len(call.content)
          /\ \A i \in 1 .. Len(call.content) :
                /\ call.ret.content[i] \in -128 .. 127
                /\ call.content[i] < 128 => call.ret.content[i] = call.content[i]
                /\ call.content[i] >= 128 => call.ret.content[i] = call.content[i] - 256
    /\ call.op = "content_unsigned" => call.ret = call.of

\* The bytes 255, 128 went through from_unsigned and back through
\* content_unsigned.
C22_Witness ==
    /\ call.op = "content_unsigned"
    /\ call.of = <<255, 128>>
    /\ call.self.content = <<-1, -128>>

\* C23: to_state_channel_binary(snapshot, h) returns an envelope whose
\* last_snapshot_hash is the string h as it was given, for every h.
C23_HashPassedThrough ==
    call.op = "to_state_channel_binary" =>
        call.ret.last_snapshot_hash = call.hash

\* An envelope was built over a string with blanks and upper-case letters.
C23_Witness ==
    /\ call.op = "to_state_channel_binary"
    /\ call.hash = " 00AB "
    /\ Len(call.ret.content) > 0

\* C24: get_app_data returns "not found" without error on a 404 answer and
\* an error on every other answer outside 2xx, whatever the body holds.
C24_ErrorOutside2xx ==
    (call.op = "get_app_data" /\ call.resp.ok) =>
        /\ call.resp.val.status = 404 => call.ret = Ok(<<>>)
        /\ (call.resp.val.status # 404 /\ ~is_success(call.resp.val.status)) => ~call.ret.ok

\* ---------------------------------------------------------------------
\* The voucher redemptions (VoucherSpec)
\* ---------------------------------------------------------------------

\* The calls of redeem_voucher on a code that have returned, and those of
\* them that returned Some(amount).
ReturnedOn(code) == {t \in Redeemers : redeem[t].pc = "returned" /\ redeem[t].code = code}
ReturnedSome(code) == {t \in ReturnedOn(code) : redeem[t].ret.ok /\ redeem[t].ret.val # <<>>}

\* redeemed_by of a row never changes once it is set.
RedeemedByIsKept ==
    \A code \in StoredCodes :
        vouchers[code].redeemed_by \notin {"absent", "NULL"} =>
            vouchers'[code].redeemed_by = vouchers[code].redeemed_by

\* C25 as stated: for any interleaving of redeem_voucher calls on the same
\* code, at most one call returns the amount, all others return None, and
\* redeemed_by never changes once set.
C25_AllOthersReturnNone ==
    /\ [](\A code \in StoredCodes :
             /\ Cardinality(ReturnedSome(code)) <= 1
             /\ \A t \in ReturnedOn(code) \ ReturnedSome(code) : redeem[t].ret = Ok(<<>>))
    /\ [][RedeemedByIsKept]_vars

\* C25, amended: for any interleaving of redeem_voucher calls on the same
\* code, at most one call returns the amount, and it is the call of the
\* sender the row is then redeemed by; every other call returns None or the
\* error of a failed statement; redeemed_by never changes once set.
C25_RedeemedAtMostOnce ==
    /\ [](\A code \in StoredCodes :
             /\ Cardinality(ReturnedSome(code)) <= 1
             /\ \A t \in ReturnedSome(code) :
                   /\ redeem[t].ret = Ok(<<vouchers[code].amount>>)
                   /\ vouchers[code].redeemed_by = redeem[t].redeemed_by
             /\ \A t \in ReturnedOn(code) \ ReturnedSome(code) :
                   redeem[t].ret \in {Ok(<<>>), Err("rusqlite")})
    /\ [][RedeemedByIsKept]_vars

\* Three calls on one code by two senders have returned: one the amount,
\* one None and one an error.
C25_Witness ==
    \E code \in StoredCodes :
        /\ ReturnedOn(code) = Redeemers
        /\ Cardinality(ReturnedSome(code)) = 1
        /\ \E t \in Redeemers : redeem[t].ret = Ok(<<>>)
        /\ \E t \in Redeemers : ~redeem[t].ret.ok
        /\ \E t \in Redeemers : redeem[t].redeemed_by # vouchers[code].redeemed_by

\* ---------------------------------------------------------------------
\* The chain cursor and the POST (Spec)
\* ---------------------------------------------------------------------

\* C26: the cursor is written only by the run loop, as the last step of a
\* submission whose POST was answered with success; mark_dirty, the expiry
\* of the timer, wake-ups that find the flag clear and failed cycles leave
\* it as it is; and it only ever holds the genesis value or the hash_value
\* of an envelope the node accepted: it is the genesis value until an
\* envelope is accepted, and every write stores the hash_value of the
\* envelope accepted in that cycle.
C26_CursorWrittenOnSuccessOnly ==
    /\ [][last_snapshot_hash' # last_snapshot_hash =>
             /\ pc = "hash" /\ pc' = "select"
             /\ Is2xx(h.status)
             /\ h'.cycle = "ok"
             /\ caller_pc' = caller_pc
             /\ last_snapshot_hash' = hash_value(h'.accepted[Len(h'.accepted)])]_vars
    /\ [][h'.accepted # h.accepted =>
             last_snapshot_hash' = hash_value(h'.accepted[Len(h'.accepted)])]_vars
    /\ [](h.accepted = <<>> => last_snapshot_hash = GenesisHash)

\* After one accepted submission, a later cycle has failed on an answer
\* outside 2xx, a mark_dirty has stored the flag since, and the cursor is the
\* hash of the accepted envelope.
C26_Witness ==
    /\ Len(h.accepted) = 1
    /\ h.cycle = "err"
    /\ h.stored_since_failure
    /\ last_snapshot_hash = hash_value(h.accepted[1])
    /\ last_snapshot_hash # GenesisHash

\* C27: a cycle sends at most one POST, and only after capture, the
\* construction of the envelope with the current cursor and signing have
\* succeeded in that order; the cursor is updated only after the POST has
\* succeeded; the POSTs sent never outnumber the read-and-clears that
\* returned true: every POST uses up a read-and-clear that returned true
\* and that no earlier POST has used.
C27_OnePostPerCycle ==
    /\ [][Len(inflight') > Len(inflight) =>
             /\ pc = "post" /\ pc' = "await"
             /\ h.cycle = "running"
             /\ h.post_owed
             /\ hive_state # <<>> /\ sc_binary # <<>> /\ signed # <<>>
             /\ sc_binary[1] = to_state_channel_binary(hive_state[1], last_snapshot_hash)
             /\ signed[1] = sign_value(identity, sc_binary[1])
             /\ inflight' = Append(inflight, signed[1])]_vars
    /\ [][last_snapshot_hash' # last_snapshot_hash =>
             /\ pc = "hash"
             /\ inflight = <<>>
             /\ Is2xx(h.status)]_vars
    /\ [][pc' # pc =>
             /\ pc' = "capture" => (pc = "woken" /\ dirty)
             /\ pc' = "build" => (pc = "capture" /\ hive_state' # <<>>)
             /\ pc' = "sign" => (pc = "build" /\ sc_binary' # <<>>)
             /\ pc' = "post" => (pc = "sign" /\ signed' # <<>>)
             /\ pc' = "hash" => pc = "await"]_vars
    /\ [](/\ sc_binary # <<>> => hive_state # <<>>
          /\ signed # <<>> => sc_binary # <<>>
          /\ pc \in {"await", "hash"} => ~h.post_owed)

\* The POST of a later cycle is on its way: it carries an envelope whose
\* cursor is the hash of the first accepted envelope.
C27_Witness ==
    /\ pc = "await"
    /\ Len(inflight) = 1
    /\ Len(h.accepted) = 1
    /\ inflight[1].value.last_snapshot_hash = hash_value(h.accepted[1])
    /\ h.cycles = "more"
    /\ ~h.post_owed

\* ---------------------------------------------------------------------
\* The order flow (MsgSpec)
\* ---------------------------------------------------------------------

\* The step in which handle_incoming_message runs on a message, and the
\* message it runs on.
Handling == caller_pc[EventTask] = "idle" /\ caller_pc'[EventTask] = "returned"
Handled == handled'[EventTask].msg

\* C28: create_order is called only while the sender's conversation state
\* is AwaitingLocation and the message is a location message or has text;
\* AwaitingLocation is entered only from ConfirmingOrder by YES, Y or
\* CONFIRM; and ConfirmingOrder always holds a non-empty cart of available
\* menu items.
C28_OrderOnlyAtEndOfFlow ==
    /\ [][db'.orders # db.orders /\ Len(db'.orders) > Len(db.orders) =>
             /\ Handling
             /\ Len(db'.orders) = Len(db.orders) + 1
             /\ conversation[Handled.sender].tag = "AwaitingLocation"
             /\ Handled.has_location \/ Handled.text # ""]_vars
    /\ [][\A s \in Senders :
             (conversation'[s].tag = "AwaitingLocation"
                 /\ conversation[s].tag # "AwaitingLocation") =>
                /\ Handling
                /\ Handled.sender = s
                /\ conversation[s].tag = "ConfirmingOrder"
                /\ to_uppercase(Handled.text) \in {"YES", "Y", "CONFIRM"}
                /\ conversation'[s].cart = conversation[s].cart]_vars
    /\ [](\A s \in Senders :
             conversation[s].tag = "ConfirmingOrder" =>
                /\ conversation[s].cart # {}
                /\ conversation[s].cart \subseteq 1 .. MenuSize)

\* A location pin has just been handled for a sender whose order is now in
\* the store, while the other sender is confirming a cart of both items.
C28_Witness ==
    /\ handled[EventTask].msg.has_location
    /\ handled[EventTask].reply = "order_confirmed"
    /\ Len(db.orders) = 1
    /\ conversation[handled[EventTask].msg.sender] = Idle
    /\ \E s \in Senders : conversation[s] = ConvState("ConfirmingOrder", {1, 2})

\* C29: once an order row has been created from the AwaitingLocation state,
\* the sender's persisted conversation state is Idle, also when sending the
\* confirmation reply fails, so that a later message from that sender
\* cannot create a second order from the same cart.
C29_IdleOnceOrderCreated ==
    [][Len(db'.orders) > Len(db.orders) =>
          conversation'[Handled.sender] = Idle]_vars

\* C30: a cancel keyword (cancel, 0, home, hi, hello, in any case) received
\* while the sender's state is neither Idle nor AdminMode resets the
\* persisted state to Idle, creates no order and does not lead to
\* mark_dirty; in AdminMode these keywords do not take the reset path.
C30_CancelResets ==
    [][(Handling /\ ~Handled.is_from_me
           /\ to_uppercase(Handled.text) \in {"CANCEL", "0", "HOME", "HI", "HELLO"}) =>
          /\ conversation[Handled.sender].tag \notin {"Idle", "AdminMode"} =>
                /\ conversation'[Handled.sender] = Idle
                /\ db' = db
                /\ handled'[EventTask].ret = "Ok(false)"
          /\ conversation[Handled.sender].tag = "AdminMode" =>
                ~(handled'[EventTask].ret = "Ok(false)"
                     /\ handled'[EventTask].reply = "welcome"
                     /\ Handled.text # "0")]_vars

====
